---------------------------- MODULE Spec2Model ----------------------------
(***************************************************************************)
(* Model of src/misc/unicode.cpp (dosbox-staging): the UTF-8 <-> DOS code  *)
(* page transcoder.  The state is the set of file-scope and function-local *)
(* static objects of the translation unit plus the collaborators it reads  *)
(* (the mapping files on disk, dos.loaded_codepage, the machine type) and  *)
(* a record of the last public call with its locals.                       *)
(***************************************************************************)
EXTENDS Integers, Sequences, FiniteSets, Bags, TLC

VARIABLES
    disk,                \* the mapping files GetResourcePath() leads to
    machine_egavga,      \* IS_EGAVGA_ARCH
    loaded_codepage,     \* dos.loaded_codepage
    config_loaded,       \* load_config_if_needed()::config_loaded
    config_mappings,
    config_duplicates,
    config_aliases,
    mapping_ascii,
    decomposition_rules,
    mappings_normalized_by_codepage,
    mappings_decomposed_by_codepage,
    aliases_normalized_by_codepage,
    aliases_decomposed_by_codepage,
    mappings_reverse_by_codepage,
    already_tried,       \* construct_mapping()::already_tried
    warned_code_points,  \* warn_code_point()::already_warned
    warned_code_pages,   \* warn_code_page()::already_warned
    warned_default,      \* warn_default_code_page()::already_warned
    log,                 \* bag of the messages given to LOG_WARNING / LOG_ERR
    construct_runs,      \* bag of the code pages construct_mapping went past
                         \* its already_tried guard for (history)
    asserted,            \* the assert() groups that were evaluated, each with
                         \* its code page and its value (history)
    call                 \* the last public call: arguments, locals, results

vars == <<disk, machine_egavga, loaded_codepage, config_loaded, config_mappings,
          config_duplicates, config_aliases, mapping_ascii, decomposition_rules,
          mappings_normalized_by_codepage, mappings_decomposed_by_codepage,
          aliases_normalized_by_codepage, aliases_decomposed_by_codepage,
          mappings_reverse_by_codepage, already_tried, warned_code_points,
          warned_code_pages, warned_default, log, construct_runs, asserted,
          call>>

---------------------------------------------------------------------------
(* Program constants                                                       *)

decode_threshold_non_ascii == 128
decode_threshold_2_bytes == 192
decode_threshold_3_bytes == 224
decode_threshold_4_bytes == 240
decode_threshold_5_bytes == 248
decode_threshold_6_bytes == 252
encode_threshold_2_bytes == 128
encode_threshold_3_bytes == 2048
unknown_character == 63
default_code_page == 437
codepoint_7f == 8962
UINT16 == 65536

\* dos_to_wide()::codes, indexed from 1 here (codes[byte] is codes_table[byte + 1])
codes_table ==
    << 32, 9786, 9787, 9829, 9830, 9827, 9824, 8226,
       9688, 9675, 9689, 9794, 9792, 9834, 9835, 9788,
       9658, 9668, 8597, 8252, 182, 167, 9644, 8616,
       8593, 8595, 8594, 8592, 8735, 8596, 9650, 9660 >>

Min(a, b) == IF a < b THEN a ELSE b

---------------------------------------------------------------------------
(* Grapheme                                                                *)

is_combining_mark(code_point) ==
    \/ code_point >= 768   /\ code_point <= 879      \* 0x0300 - 0x036f
    \/ code_point >= 1619  /\ code_point <= 1631     \* 0x0653 - 0x065f
    \/ code_point >= 6832  /\ code_point <= 6911     \* 0x1ab0 - 0x1aff
    \/ code_point >= 7616  /\ code_point <= 7679     \* 0x1dc0 - 0x1dff
    \/ code_point >= 8400  /\ code_point <= 8447     \* 0x20d0 - 0x20ff
    \/ code_point >= 65056 /\ code_point <= 65071    \* 0xfe20 - 0xfe2f

\* Grapheme() = default: the default member initializers
GraphemeDefault ==
    [code_point |-> 32, marks |-> <<>>, marks_sorted |-> <<>>,
     is_empty |-> TRUE, is_valid |-> TRUE]

Invalidate(g) ==
    [code_point |-> unknown_character, marks |-> <<>>, marks_sorted |-> <<>>,
     is_empty |-> FALSE, is_valid |-> FALSE]

\* Grapheme(const uint16_t code_point)
GraphemeOf(code_point) ==
    LET g == [code_point |-> code_point, marks |-> <<>>, marks_sorted |-> <<>>,
              is_empty |-> FALSE, is_valid |-> TRUE]
    IN  IF is_combining_mark(code_point) THEN Invalidate(g) ELSE g

IsEmpty(g) == g.is_empty
IsValid(g) == g.is_valid
HasMark(g) == g.marks # <<>>
GetCodePoint(g) == g.code_point

InSeq(x, s) == \E i \in 1..Len(s) : s[i] = x

\* std::sort of a sorted vector to which one element was appended
RECURSIVE SortedInsert(_, _)
SortedInsert(s, x) ==
    IF s = <<>> THEN <<x>>
    ELSE IF x < Head(s) THEN <<x>> \o s
    ELSE <<Head(s)>> \o SortedInsert(Tail(s), x)

RECURSIVE SortMarks(_)
SortMarks(s) == IF s = <<>> THEN <<>> ELSE SortedInsert(SortMarks(Tail(s)), Head(s))

\* AddMark without the test of is_empty
AddMarkToEmpty(g, in_code_point) ==
    IF ~g.is_valid THEN g
    ELSE IF ~is_combining_mark(in_code_point) THEN Invalidate(g)
    ELSE IF InSeq(in_code_point, g.marks) THEN g
    ELSE [g EXCEPT !.marks = Append(g.marks, in_code_point),
                   !.marks_sorted = SortMarks(Append(g.marks_sorted, in_code_point))]

\* AddMark without the std::sort of marks_sorted
AddMarkUnsorted(g, in_code_point) ==
    IF ~g.is_valid THEN g
    ELSE IF ~is_combining_mark(in_code_point) \/ g.is_empty THEN Invalidate(g)
    ELSE IF InSeq(in_code_point, g.marks) THEN g
    ELSE [g EXCEPT !.marks = Append(g.marks, in_code_point),
                   !.marks_sorted = Append(g.marks_sorted, in_code_point)]

AddMark(g, in_code_point) ==
    IF ~g.is_valid THEN g
    ELSE IF ~is_combining_mark(in_code_point) \/ g.is_empty THEN Invalidate(g)
    ELSE IF InSeq(in_code_point, g.marks) THEN g
    ELSE [g EXCEPT !.marks = Append(g.marks, in_code_point),
                   !.marks_sorted = SortMarks(Append(g.marks_sorted, in_code_point))]

RECURSIVE AddMarks(_, _)
AddMarks(g, ms) == IF ms = <<>> THEN g ELSE AddMarks(AddMark(g, Head(ms)), Tail(ms))

StripMarks(g) == [g EXCEPT !.marks = <<>>, !.marks_sorted = <<>>]

PushInto(g, str_out) ==
    IF g.is_empty \/ ~g.is_valid THEN str_out
    ELSE str_out \o <<g.code_point>> \o g.marks

\* operator==
GraphemeEq(a, b) ==
    /\ a.is_empty = b.is_empty
    /\ a.is_valid = b.is_valid
    /\ a.code_point = b.code_point
    /\ a.marks_sorted = b.marks_sorted

RECURSIVE SeqLess(_, _)
SeqLess(s, t) ==
    IF s = <<>> THEN FALSE
    ELSE IF Head(s) < Head(t) THEN TRUE
    ELSE IF Head(s) > Head(t) THEN FALSE
    ELSE SeqLess(Tail(s), Tail(t))

\* operator<
GraphemeLess(a, b) ==
    IF a.code_point < b.code_point THEN TRUE
    ELSE IF a.code_point > b.code_point THEN FALSE
    ELSE IF a.marks_sorted = <<>> /\ b.marks_sorted = <<>> THEN FALSE
    ELSE IF Len(a.marks_sorted) < Len(b.marks_sorted) THEN TRUE
    ELSE IF Len(a.marks_sorted) > Len(b.marks_sorted) THEN FALSE
    ELSE SeqLess(a.marks_sorted, b.marks_sorted)

\* Two keys of a std::map<Grapheme, T> are the same key when neither is less
\* than the other: the key of a grapheme is what operator< reads of it.
Key(g) == <<g.code_point, g.marks_sorted>>

\* Grapheme::Decompose; rules is decomposition_rules, std::map<uint16_t, Grapheme>
\* as a function from the code points that have a rule.
\* One iteration of the while loop of Decompose
DecomposeIteration(g, rules) ==
    AddMarks([g EXCEPT !.code_point = rules[g.code_point].code_point],
             rules[g.code_point].marks)

RECURSIVE DecomposeLoop(_, _)
DecomposeLoop(g, rules) ==
    IF g.code_point \notin DOMAIN rules THEN g
    ELSE DecomposeLoop(DecomposeIteration(g, rules), rules)

Decompose(g, rules) ==
    IF ~g.is_valid \/ g.is_empty THEN g ELSE DecomposeLoop(g, rules)

---------------------------------------------------------------------------
(* UTF-8 codec.  Strings are sequences of bytes 0..255, indexed from 1.    *)

IsContinuation(byte) ==
    byte >= decode_threshold_non_ascii /\ byte < decode_threshold_2_bytes

\* utf8_to_wide()::advance: i is the index of the lead byte on entry and of the
\* last byte consumed on exit
RECURSIVE advance(_, _, _)
advance(str_in, i, counter) ==
    IF counter = 0 THEN i
    ELSE IF ~IsContinuation(str_in[i + 1]) THEN i
    ELSE advance(str_in, i + 1, counter - 1)

\* One iteration of the loop of utf8_to_wide, at index i: the code point it
\* pushes, the index of the last byte it consumes, and whether it clears status.
Decode3(byte_1, byte_2, byte_3, i) ==
    LET c1 == (byte_1 - decode_threshold_3_bytes) * 64
        ok2 == IsContinuation(byte_2)
        c2 == IF ok2 THEN c1 + byte_2 - decode_threshold_non_ascii ELSE c1
        c3 == c2 * 64
        ok3 == ok2 /\ IsContinuation(byte_3)
        c4 == IF ok3 THEN c3 + byte_3 - decode_threshold_non_ascii ELSE c3
    IN  [code_point |-> c4,
         last |-> i + (IF ok2 THEN 1 ELSE 0) + (IF ok3 THEN 1 ELSE 0),
         bad |-> ~ok2 \/ ~ok3]

Decode2(byte_1, byte_2, i) ==
    LET c1 == (byte_1 - decode_threshold_2_bytes) * 64
        ok2 == IsContinuation(byte_2)
    IN  [code_point |-> IF ok2 THEN c1 + byte_2 - decode_threshold_non_ascii ELSE c1,
         last |-> IF ok2 THEN i + 1 ELSE i,
         bad |-> ~ok2]

DecodeAt(str_in, i) ==
    LET remaining == Len(str_in) - i
        byte_1 == str_in[i]
        byte_2 == IF remaining >= 1 THEN str_in[i + 1] ELSE 0
        byte_3 == IF remaining >= 2 THEN str_in[i + 2] ELSE 0
        skip(n) == [code_point |-> unknown_character,
                    last |-> advance(str_in, i, Min(remaining, n)),
                    bad |-> TRUE]
    IN  IF byte_1 >= decode_threshold_6_bytes THEN skip(5)
        ELSE IF byte_1 >= decode_threshold_5_bytes THEN skip(4)
        ELSE IF byte_1 >= decode_threshold_4_bytes THEN skip(3)
        ELSE IF byte_1 >= decode_threshold_3_bytes THEN Decode3(byte_1, byte_2, byte_3, i)
        ELSE IF byte_1 >= decode_threshold_2_bytes THEN Decode2(byte_1, byte_2, i)
        ELSE IF byte_1 < decode_threshold_non_ascii
             THEN [code_point |-> byte_1, last |-> i, bad |-> FALSE]
        ELSE [code_point |-> unknown_character, last |-> i, bad |-> TRUE]

\* The iterations of the loop from index i on, each with the index it starts at
RECURSIVE DecodeFrom(_, _)
DecodeFromWith(str_in, i, d) ==
    <<[pos |-> i, code_point |-> d.code_point % UINT16, bad |-> d.bad]>>
    \o DecodeFrom(str_in, d.last + 1)

DecodeFrom(str_in, i) ==
    IF i > Len(str_in) THEN <<>>
    ELSE DecodeFromWith(str_in, i, DecodeAt(str_in, i))

Utf8ToWideResult(iters) ==
    [str_out |-> [k \in 1..Len(iters) |-> iters[k].code_point],
     status |-> \A k \in 1..Len(iters) : ~iters[k].bad,
     iters |-> iters]

\* utf8_to_wide: str_out, the returned status, and the loop's iterations
utf8_to_wide(str_in) == Utf8ToWideResult(DecodeFrom(str_in, 1))

EncodeOne(code_point) ==
    IF code_point < encode_threshold_2_bytes THEN <<code_point>>
    ELSE IF code_point < encode_threshold_3_bytes
         THEN <<((code_point \div 64) + 192) % 256, (code_point % 64) + 128>>
    ELSE <<((code_point \div 4096) + 224) % 256,
           ((code_point \div 64) % 64) + 128,
           (code_point % 64) + 128>>

RECURSIVE wide_to_utf8(_)
wide_to_utf8(str_in) ==
    IF str_in = <<>> THEN <<>>
    ELSE EncodeOne(Head(str_in)) \o wide_to_utf8(Tail(str_in))

---------------------------------------------------------------------------
(* Containers.  A std::map is a function from the keys it holds; a         *)
(* code_page_mapping_t (std::map<Grapheme, uint8_t>) is a function from    *)
(* Key(grapheme) to the stored pair [first |-> grapheme, second |-> byte]. *)

EmptyMap == [k \in {} |-> 0]

MapHas(m, k) == k \in DOMAIN m
MapPut(m, k, v) == [x \in (DOMAIN m) \cup {k} |-> IF x = k THEN v ELSE m[x]]
MapErase(m, k) == [x \in (DOMAIN m) \ {k} |-> m[x]]

\* The process-wide objects, gathered so that the functions working on them
\* can be written as operators from one such record to the next.
Reg ==
    [config_loaded |-> config_loaded,
     config_mappings |-> config_mappings,
     config_duplicates |-> config_duplicates,
     config_aliases |-> config_aliases,
     mapping_ascii |-> mapping_ascii,
     decomposition_rules |-> decomposition_rules,
     mappings_normalized_by_codepage |-> mappings_normalized_by_codepage,
     mappings_decomposed_by_codepage |-> mappings_decomposed_by_codepage,
     aliases_normalized_by_codepage |-> aliases_normalized_by_codepage,
     aliases_decomposed_by_codepage |-> aliases_decomposed_by_codepage,
     mappings_reverse_by_codepage |-> mappings_reverse_by_codepage,
     already_tried |-> already_tried,
     warned_code_points |-> warned_code_points,
     warned_code_pages |-> warned_code_pages,
     warned_default |-> warned_default,
     log |-> log,
     construct_runs |-> construct_runs,
     asserted |-> asserted]

SetReg(r) ==
    /\ config_loaded' = r.config_loaded
    /\ config_mappings' = r.config_mappings
    /\ config_duplicates' = r.config_duplicates
    /\ config_aliases' = r.config_aliases
    /\ mapping_ascii' = r.mapping_ascii
    /\ decomposition_rules' = r.decomposition_rules
    /\ mappings_normalized_by_codepage' = r.mappings_normalized_by_codepage
    /\ mappings_decomposed_by_codepage' = r.mappings_decomposed_by_codepage
    /\ aliases_normalized_by_codepage' = r.aliases_normalized_by_codepage
    /\ aliases_decomposed_by_codepage' = r.aliases_decomposed_by_codepage
    /\ mappings_reverse_by_codepage' = r.mappings_reverse_by_codepage
    /\ already_tried' = r.already_tried
    /\ warned_code_points' = r.warned_code_points
    /\ warned_code_pages' = r.warned_code_pages
    /\ warned_default' = r.warned_default
    /\ log' = r.log
    /\ construct_runs' = r.construct_runs
    /\ asserted' = r.asserted

\* LOG_WARNING / LOG_ERR: a message is <<text, file name, number>>
Logged(r, msg) == [r EXCEPT !.log = @ (+) SetToBag({msg})]

\* warn_code_point without the already_warned test
warn_code_point_every_time(r, code_point) ==
    Logged([r EXCEPT !.warned_code_points = @ \cup {code_point}],
           <<"No fallback mapping for code point", "", code_point>>)

warn_code_point(r, code_point) ==
    IF code_point \in r.warned_code_points THEN r
    ELSE Logged([r EXCEPT !.warned_code_points = @ \cup {code_point}],
                <<"No fallback mapping for code point", "", code_point>>)

warn_code_page(r, code_page) ==
    IF code_page \in r.warned_code_pages THEN r
    ELSE Logged([r EXCEPT !.warned_code_pages = @ \cup {code_page}],
                <<"Requested unknown code page", "", code_page>>)

warn_default_code_page(r) ==
    IF r.warned_default THEN r
    ELSE Logged([r EXCEPT !.warned_default = TRUE],
                <<"Unable to prepare default code page", "", 0>>)

---------------------------------------------------------------------------
(* wide_to_dos                                                             *)

\* The result of one of the push_ lambdas: whether it pushed a byte, the byte,
\* and the name of the lambda that pushed it.
NotPushed == [ok |-> FALSE, byte |-> 0, step |-> "none"]
Pushed(byte, step) == [ok |-> TRUE, byte |-> byte, step |-> step]
OrElse(a, b) == IF a.ok THEN a ELSE b

\* The four table pointers of wide_to_dos; present is FALSE for nullptr
TablePtr(by_codepage, code_page) ==
    IF code_page # 0 /\ code_page \in DOMAIN by_codepage
    THEN [present |-> TRUE, map |-> by_codepage[code_page]]
    ELSE [present |-> FALSE, map |-> EmptyMap]

\* push_7bit with the bound one code point too low: '~' (0x7e) is refused
push_7bit_below_tilde(grapheme) ==
    IF HasMark(grapheme) THEN NotPushed
    ELSE IF GetCodePoint(grapheme) >= decode_threshold_non_ascii - 2 THEN NotPushed
    ELSE Pushed(GetCodePoint(grapheme), "7bit")

push_7bit(grapheme) ==
    IF HasMark(grapheme) THEN NotPushed
    ELSE IF GetCodePoint(grapheme) >= decode_threshold_non_ascii THEN NotPushed
    ELSE Pushed(GetCodePoint(grapheme), "7bit")

push_code_page(mapping, grapheme, step) ==
    IF ~mapping.present THEN NotPushed
    ELSE IF ~MapHas(mapping.map, Key(grapheme)) THEN NotPushed
    ELSE Pushed(mapping.map[Key(grapheme)].second, step)

push_fallback(r, grapheme) ==
    IF HasMark(grapheme) THEN NotPushed
    ELSE LET k == Key(GraphemeOf(GetCodePoint(grapheme)))
         IN  IF ~MapHas(r.mapping_ascii, k) THEN NotPushed
             ELSE Pushed(r.mapping_ascii[k].second, "fallback")

\* push_normalized with the ASCII fallback tried before the code page tables
push_normalized_fallback_first(r, code_page, grapheme) ==
    OrElse(push_7bit(grapheme),
    OrElse(push_fallback(r, grapheme),
    OrElse(push_code_page(TablePtr(r.mappings_normalized_by_codepage, code_page),
                          grapheme, "normalized"),
           push_code_page(TablePtr(r.aliases_normalized_by_codepage, code_page),
                          grapheme, "alias_normalized"))))

push_normalized(r, code_page, grapheme) ==
    OrElse(push_7bit(grapheme),
    OrElse(push_code_page(TablePtr(r.mappings_normalized_by_codepage, code_page),
                          grapheme, "normalized"),
    OrElse(push_code_page(TablePtr(r.aliases_normalized_by_codepage, code_page),
                          grapheme, "alias_normalized"),
           push_fallback(r, grapheme))))

PushDecomposedOf(r, code_page, decomposed) ==
    OrElse(push_code_page(TablePtr(r.mappings_decomposed_by_codepage, code_page),
                          decomposed, "decomposed"),
           push_code_page(TablePtr(r.aliases_decomposed_by_codepage, code_page),
                          decomposed, "alias_decomposed"))

push_decomposed(r, code_page, grapheme) ==
    PushDecomposedOf(r, code_page, Decompose(grapheme, r.decomposition_rules))

\* The "last, desperate attempt" of the loop body: decompose and strip marks
AsStripped(p) == IF p.ok THEN Pushed(p.byte, "stripped") ELSE NotPushed

PushStrippedOf(r, code_page, decomposed) ==
    IF HasMark(decomposed)
    THEN AsStripped(push_normalized(r, code_page, StripMarks(decomposed)))
    ELSE NotPushed

push_stripped(r, code_page, grapheme) ==
    PushStrippedOf(r, code_page, Decompose(grapheme, r.decomposition_rules))

\* The loop body with the strip-marks retry tried before push_decomposed
push_grapheme_stripped_first(r, code_page, grapheme) ==
    OrElse(push_normalized(r, code_page, grapheme),
    OrElse(push_stripped(r, code_page, grapheme),
    OrElse(push_decomposed(r, code_page, grapheme),
           Pushed(unknown_character, "unknown"))))

\* The body of the loop for one assembled grapheme, up to push_unknown
push_grapheme(r, code_page, grapheme) ==
    OrElse(push_normalized(r, code_page, grapheme),
    OrElse(push_decomposed(r, code_page, grapheme),
    OrElse(push_stripped(r, code_page, grapheme),
           Pushed(unknown_character, "unknown"))))

\* The inner loop left out: a grapheme takes in no combining mark
LastOfGraphemeOne(str_in, i) == i

\* The index of the last code point the grapheme starting at i takes in
RECURSIVE LastOfGrapheme(_, _)
LastOfGrapheme(str_in, i) ==
    IF i + 1 <= Len(str_in) /\ is_combining_mark(str_in[i + 1])
    THEN LastOfGrapheme(str_in, i + 1)
    ELSE i

\* Grapheme grapheme(str_in[i]) and the AddMark calls of the inner loop
AssembleGrapheme(str_in, i, last) ==
    AddMarks(GraphemeOf(str_in[i]), SubSeq(str_in, i + 1, last))

\* The iterations of the loop of wide_to_dos from index i on: for each, the
\* grapheme assembled, the code point push_unknown would report, and the push
PushIteration(r, code_page, grapheme) ==
    [grapheme |-> grapheme,
     original_code_point |-> GetCodePoint(grapheme),
     push |-> push_grapheme(r, code_page, grapheme)]

RECURSIVE PushFrom(_, _, _, _)
RECURSIVE PushFromTo(_, _, _, _, _)
PushFromTo(r, code_page, str_in, i, last) ==
    <<PushIteration(r, code_page, AssembleGrapheme(str_in, i, last))>>
    \o PushFrom(r, code_page, str_in, last + 1)

PushFrom(r, code_page, str_in, i) ==
    IF i > Len(str_in) THEN <<>>
    ELSE PushFromTo(r, code_page, str_in, i, LastOfGrapheme(str_in, i))

\* push_unknown's calls of warn_code_point, in the order of the loop
RECURSIVE WarnUnknowns(_, _)
WarnUnknowns(r, iters) ==
    IF iters = <<>> THEN r
    ELSE WarnUnknowns(IF Head(iters).push.step = "unknown"
                      THEN warn_code_point(r, Head(iters).original_code_point)
                      ELSE r,
                      Tail(iters))

\* wide_to_dos: the registry after it (the warnings), str_out, the returned
\* status, and the loop's iterations
WideToDosResult(r1, iters) ==
    [r |-> WarnUnknowns(r1, iters),
     str_out |-> [k \in 1..Len(iters) |-> iters[k].push.byte],
     status |-> \A k \in 1..Len(iters) : iters[k].push.step # "unknown",
     iters |-> iters]

WideToDosLoop(r1, str_in, code_page) ==
    WideToDosResult(r1, PushFrom(r1, code_page, str_in, 1))

wide_to_dos(r, str_in, code_page) ==
    WideToDosLoop(IF code_page # 0
                     /\ code_page \notin DOMAIN r.mappings_normalized_by_codepage
                  THEN warn_code_page(r, code_page)
                  ELSE r,
                  str_in, code_page)

---------------------------------------------------------------------------
(* dos_to_wide                                                             *)

dos_to_wide_byte(r, byte, code_page) ==
    IF byte >= decode_threshold_non_ascii
    THEN IF \/ code_page \notin DOMAIN r.mappings_reverse_by_codepage
            \/ byte \notin DOMAIN r.mappings_reverse_by_codepage[code_page]
         THEN <<unknown_character>>
         ELSE PushInto(r.mappings_reverse_by_codepage[code_page][byte], <<>>)
    ELSE IF byte = 127 THEN <<codepoint_7f>>
    ELSE IF byte >= 32 THEN <<byte>>
    ELSE <<codes_table[byte + 1]>>

RECURSIVE dos_to_wide(_, _, _)
dos_to_wide(r, str_in, code_page) ==
    IF str_in = <<>> THEN <<>>
    ELSE dos_to_wide_byte(r, Head(str_in), code_page)
         \o dos_to_wide(r, Tail(str_in), code_page)

---------------------------------------------------------------------------
(* Mapping files.  A file is [state, lines]: state "missing" when it cannot *)
(* be opened, "read_error" when the stream fails after its lines were read, *)
(* "ok" otherwise.  A line is the outcome of get_tokens and of the token    *)
(* readers (get_hex_8bit, get_hex_16bit, get_code_page, get_ascii) on one   *)
(* non-empty line: its kind and its numbers, or "MALFORMED" when a reader   *)
(* rejects a token or the number of tokens fits no form (the code logs      *)
(* these through error_parsing, with or without details).                   *)

Line(kind, a, b, cps, dir, file) ==
    [kind |-> kind, a |-> a, b |-> b, cps |-> cps, dir |-> dir, file |-> file]

LAlias(a, b) == Line("ALIAS", a, b, <<>>, "", "")
LAliasBidirectional(a, b) == Line("ALIAS_BIDIRECTIONAL", a, b, <<>>, "", "")
LCodePage(cp) == Line("CODEPAGE", cp, 0, <<>>, "", "")
LDuplicates(cp1, cp2) == Line("DUPLICATES", cp1, cp2, <<>>, "", "")
LExtendsCodePage(cp) == Line("EXTENDS_CODEPAGE", cp, 0, <<>>, "", "")
LExtendsFile(dir, file) == Line("EXTENDS_FILE", 0, 0, <<>>, dir, file)
LUndefined(byte) == Line("UNDEFINED", byte, 0, <<>>, "", "")
LMapping(byte, cps) == Line("MAPPING", byte, 0, cps, "", "")
LRule(source, base, marks) == Line("RULE", source, base, marks, "", "")
LAscii(code_point, character) == Line("ASCII", code_point, character, <<>>, "", "")
LMalformed == Line("MALFORMED", 0, 0, <<>>, "", "")

File(lines) == [state |-> "ok", lines |-> lines]
FileMissing == [state |-> "missing", lines |-> <<>>]
FileReadError(lines) == [state |-> "read_error", lines |-> lines]

file_name_main == "MAIN.TXT"
file_name_ascii == "ASCII.TXT"
file_name_decomposition == "DECOMPOSITION.TXT"
dir_name_mapping == "mapping"

\* get_grapheme on a line whose tokens all read: tokens[1] is the base,
\* tokens[2] and tokens[3] are given to AddMark
get_grapheme(cps) == AddMarks(GraphemeOf(cps[1]), Tail(cps))

\* add_if_not_mapped: std::map::try_emplace
add_if_not_mapped(mapping, first, second) ==
    IF MapHas(mapping, first) THEN mapping ELSE MapPut(mapping, first, second)

\* open_mapping_file: the registry after it (the log)
open_mapping_file(r, file, file_name) ==
    IF file.state = "missing"
    THEN Logged(r, <<"Could not open mapping file", file_name, 0>>)
    ELSE r

\* check_import_status: the registry after it (the log) and the returned value
check_import_status(r, file, file_name, empty) ==
    IF file.state = "read_error"
    THEN [r |-> Logged(r, <<"Error reading mapping file", file_name, 0>>), ok |-> FALSE]
    ELSE IF empty
    THEN [r |-> Logged(r, <<"Mapping file has no entries", file_name, 0>>), ok |-> FALSE]
    ELSE [r |-> r, ok |-> TRUE]

\* The text error_parsing logs, and the texts of its callers and of
\* check_grapheme_valid
error_parsing(details) ==
    IF details = "" THEN "Error parsing mapping file"
    ELSE "Error parsing mapping file: " \o details

error_not_combining_mark(position) ==
    error_parsing("token #" \o ToString(position)
                  \o " is not a supported combining mark")

error_code_page_defined == error_parsing("code page already defined")
error_code_page_none == error_parsing("not currently defining a code page")
error_grapheme_invalid == "Error, invalid grapheme defined in file"

\* A return out of the loop of an import function after text was logged; p
\* holds the locals of the function
Failed(p, text) == [p EXCEPT !.failed = TRUE, !.error = text]

\* The message of the return that ended the loop
LoggedFailure(r, file_name, p) == Logged(r, <<p.error, file_name, p.line_num>>)

\* ConfigMappingEntry with its default member initializers
ConfigMappingEntryDefault ==
    [valid |-> FALSE, mapping |-> EmptyMap, extends_code_page |-> 0,
     extends_dir |-> "", extends_file |-> ""]

\* new_config_mappings[code_page], which creates the entry when it is missing
EntryOf(mappings, code_page) ==
    IF MapHas(mappings, code_page) THEN mappings[code_page]
    ELSE ConfigMappingEntryDefault

\* check_no_code_page looking at the mappings only
check_no_code_page_mappings_only(p, code_page) ==
    ~ (MapHas(p.new_config_mappings, code_page)
         /\ p.new_config_mappings[code_page].valid)

\* import_config_main()::check_no_code_page
check_no_code_page(p, code_page) ==
    ~ \/ (MapHas(p.new_config_mappings, code_page)
           /\ p.new_config_mappings[code_page].valid)
      \/ MapHas(p.new_config_duplicates, code_page)

\* The body of the while loop of import_config_main for one line; p holds the
\* locals of the function, p.failed is set where the code returns
MainLine(p, line) ==
    LET fail == Failed(p, error_parsing(""))
        none == Failed(p, error_code_page_none)
        defined == Failed(p, error_code_page_defined)
        cur == p.curent_code_page
        entry == EntryOf(p.new_config_mappings, cur)
        put(e) == MapPut(p.new_config_mappings, cur, e)
    IN  CASE line.kind \in {"ALIAS", "ALIAS_BIDIRECTIONAL"} ->
                [p EXCEPT !.new_config_aliases =
                              @ \o <<<<line.a, line.b>>>>
                                \o (IF line.kind = "ALIAS_BIDIRECTIONAL"
                                    THEN <<<<line.b, line.a>>>> ELSE <<>>),
                          !.curent_code_page = 0]
          [] line.kind = "DUPLICATES" ->
                IF ~check_no_code_page(p, line.a) THEN defined
                ELSE [p EXCEPT !.new_config_duplicates = MapPut(@, line.a, line.b),
                               !.curent_code_page = 0]
          [] line.kind = "CODEPAGE" ->
                IF ~check_no_code_page(p, line.a) THEN defined
                ELSE [p EXCEPT !.new_config_mappings =
                                   MapPut(@, line.a,
                                          [EntryOf(@, line.a) EXCEPT !.valid = TRUE]),
                               !.curent_code_page = line.a]
          [] line.kind = "EXTENDS_CODEPAGE" ->
                IF cur = 0 THEN none
                ELSE [p EXCEPT !.new_config_mappings =
                                   put([entry EXCEPT !.extends_code_page = line.a]),
                               !.curent_code_page = 0]
          [] line.kind = "EXTENDS_FILE" ->
                IF cur = 0 THEN none
                ELSE [p EXCEPT !.new_config_mappings =
                                   put([entry EXCEPT !.extends_dir = line.dir,
                                                     !.extends_file = line.file]),
                               !.file_empty = FALSE,
                               !.curent_code_page = 0]
          [] line.kind = "UNDEFINED" ->
                IF cur = 0 THEN none
                ELSE IF line.a >= decode_threshold_non_ascii
                THEN [p EXCEPT !.new_config_mappings =
                                   put([entry EXCEPT !.mapping =
                                        add_if_not_mapped(@, line.a, GraphemeDefault)]),
                               !.file_empty = FALSE]
                ELSE [p EXCEPT !.new_config_mappings = put(entry)]
          [] line.kind = "MAPPING" ->
                IF cur = 0 THEN none
                ELSE IF line.a >= decode_threshold_non_ascii
                THEN IF ~IsValid(get_grapheme(line.cps))
                     THEN Failed(p, error_grapheme_invalid)
                     ELSE [p EXCEPT !.new_config_mappings =
                                   put([entry EXCEPT !.mapping =
                                        add_if_not_mapped(@, line.a,
                                                          get_grapheme(line.cps))]),
                                    !.file_empty = FALSE]
                ELSE [p EXCEPT !.new_config_mappings = put(entry)]
          [] OTHER -> fail

\* The while loop of import_config_main: p.line_num counts the lines read
RECURSIVE MainLines(_, _)
MainLines(p, lines) ==
    IF lines = <<>> \/ p.failed THEN p
    ELSE MainLines(MainLine([p EXCEPT !.line_num = @ + 1], Head(lines)), Tail(lines))

\* import_config_main after the loop: status is what check_import_status gave
ImportConfigMainStore(status, p) ==
    IF ~status.ok THEN status.r
    ELSE [status.r EXCEPT !.config_mappings = p.new_config_mappings,
                          !.config_duplicates = p.new_config_duplicates,
                          !.config_aliases = p.new_config_aliases]

\* import_config_main storing what it had read when a line fails to parse
ImportConfigMainHalfBuilt(r, file, p) ==
    IF p.failed
    THEN [LoggedFailure(r, file_name_main, p)
              EXCEPT !.config_mappings = p.new_config_mappings,
                     !.config_duplicates = p.new_config_duplicates,
                     !.config_aliases = p.new_config_aliases]
    ELSE ImportConfigMainStore(
             check_import_status(r, file, file_name_main, p.file_empty), p)

ImportConfigMainResult(r, file, p) ==
    IF p.failed THEN LoggedFailure(r, file_name_main, p)
    ELSE ImportConfigMainStore(
             check_import_status(r, file, file_name_main, p.file_empty), p)

import_config_main(r, file) ==
    IF file.state = "missing" THEN open_mapping_file(r, file, file_name_main)
    ELSE ImportConfigMainResult(r, file,
             MainLines([new_config_mappings |-> EmptyMap,
                        new_config_duplicates |-> EmptyMap,
                        new_config_aliases |-> <<>>,
                        curent_code_page |-> 0,
                        file_empty |-> TRUE,
                        line_num |-> 0,
                        failed |-> FALSE, error |-> ""],
             file.lines))

\* mapping[grapheme] = byte on a code_page_mapping_t: the value is overwritten,
\* the key object already stored is kept
MapAssign(mapping, grapheme, byte) ==
    IF MapHas(mapping, Key(grapheme))
    THEN [mapping EXCEPT ![Key(grapheme)].second = byte]
    ELSE MapPut(mapping, Key(grapheme), [first |-> grapheme, second |-> byte])

\* The body of the while loop of import_decomposition for one line
DecompositionLine(p, line) ==
    IF line.kind # "RULE" \/ line.cps = <<>> THEN Failed(p, error_parsing(""))
    ELSE IF \E k \in 1..Len(line.cps) : ~is_combining_mark(line.cps[k])
    THEN Failed(p, error_not_combining_mark(
                       2 + CHOOSE k \in 1..Len(line.cps) :
                               /\ ~is_combining_mark(line.cps[k])
                               /\ \A j \in 1..(k - 1) : is_combining_mark(line.cps[j])))
    ELSE [p EXCEPT !.new_rules =
                       MapPut(@, line.a, AddMarks(GraphemeOf(line.b), line.cps))]

RECURSIVE DecompositionLines(_, _)
DecompositionLines(p, lines) ==
    IF lines = <<>> \/ p.failed THEN p
    ELSE DecompositionLines(DecompositionLine([p EXCEPT !.line_num = @ + 1],
                                              Head(lines)), Tail(lines))

ImportDecompositionStore(status, p) ==
    IF ~status.ok THEN status.r
    ELSE [status.r EXCEPT !.decomposition_rules = p.new_rules]

ImportDecompositionResult(r, file, p) ==
    IF p.failed THEN LoggedFailure(r, file_name_decomposition, p)
    ELSE ImportDecompositionStore(
             check_import_status(r, file, file_name_decomposition,
                                 p.new_rules = EmptyMap), p)

import_decomposition(r, file) ==
    IF file.state = "missing"
    THEN open_mapping_file(r, file, file_name_decomposition)
    ELSE ImportDecompositionResult(r, file,
             DecompositionLines([new_rules |-> EmptyMap, line_num |-> 0,
                                 failed |-> FALSE, error |-> ""],
             file.lines))

\* The body of the while loop of import_mapping_ascii for one line
AsciiLine(p, line) ==
    IF line.kind # "ASCII" THEN Failed(p, error_parsing(""))
    ELSE [p EXCEPT !.new_mapping_ascii = MapAssign(@, GraphemeOf(line.a), line.b)]

RECURSIVE AsciiLines(_, _)
AsciiLines(p, lines) ==
    IF lines = <<>> \/ p.failed THEN p
    ELSE AsciiLines(AsciiLine([p EXCEPT !.line_num = @ + 1], Head(lines)), Tail(lines))

ImportMappingAsciiStore(status, p) ==
    IF ~status.ok THEN status.r
    ELSE [status.r EXCEPT !.mapping_ascii = p.new_mapping_ascii]

ImportMappingAsciiResult(r, file, p) ==
    IF p.failed THEN LoggedFailure(r, file_name_ascii, p)
    ELSE ImportMappingAsciiStore(
             check_import_status(r, file, file_name_ascii,
                                 p.new_mapping_ascii = EmptyMap), p)

import_mapping_ascii(r, file) ==
    IF file.state = "missing" THEN open_mapping_file(r, file, file_name_ascii)
    ELSE ImportMappingAsciiResult(r, file,
             AsciiLines([new_mapping_ascii |-> EmptyMap, line_num |-> 0,
                         failed |-> FALSE, error |-> ""],
             file.lines))

\* The body of the while loop of import_mapping_code_page for one line
CodePageLine(p, line) ==
    CASE line.kind = "UNDEFINED" ->
            IF line.a >= decode_threshold_non_ascii
            THEN [p EXCEPT !.new_mapping = add_if_not_mapped(@, line.a, GraphemeDefault)]
            ELSE p
      [] line.kind = "MAPPING" ->
            IF line.a >= decode_threshold_non_ascii
            THEN IF ~MapHas(p.new_mapping, line.a) /\ ~IsValid(get_grapheme(line.cps))
                 THEN Failed(p, error_grapheme_invalid)
                 ELSE [p EXCEPT !.new_mapping =
                                    add_if_not_mapped(@, line.a, get_grapheme(line.cps))]
            ELSE p
      [] OTHER -> Failed(p, error_parsing(""))

RECURSIVE CodePageLines(_, _)
CodePageLines(p, lines) ==
    IF lines = <<>> \/ p.failed THEN p
    ELSE CodePageLines(CodePageLine([p EXCEPT !.line_num = @ + 1], Head(lines)),
                       Tail(lines))

NotImported(r) == [r |-> r, ok |-> FALSE, mapping |-> EmptyMap]

ImportMappingCodePageStore(status, p) ==
    IF ~status.ok THEN NotImported(status.r)
    ELSE [r |-> status.r, ok |-> TRUE, mapping |-> p.new_mapping]

ImportMappingCodePageResult(r, file, file_name, p) ==
    IF p.failed THEN NotImported(LoggedFailure(r, file_name, p))
    ELSE ImportMappingCodePageStore(
             check_import_status(r, file, file_name, p.new_mapping = EmptyMap), p)

\* import_mapping_code_page: the registry after it (the log), the returned
\* value, and the mapping handed back when it is true
import_mapping_code_page(r, file, file_name) ==
    IF file.state = "missing"
    THEN NotImported(Logged(open_mapping_file(r, file, file_name),
                            <<"Error opening mapping file", file_name, 0>>))
    ELSE ImportMappingCodePageResult(r, file, file_name,
             CodePageLines([new_mapping |-> EmptyMap, line_num |-> 0,
                            failed |-> FALSE, error |-> ""],
             file.lines))

---------------------------------------------------------------------------
(* Mapping builder                                                         *)

deduplicate_code_page(r, code_page) ==
    IF MapHas(r.config_duplicates, code_page) THEN r.config_duplicates[code_page]
    ELSE code_page

\* The keys of a byte-keyed std::map in the order its iteration visits them
RECURSIVE Ascending(_)
Ascending(S) ==
    IF S = {} THEN <<>>
    ELSE LET m == CHOOSE x \in S : \A y \in S : x <= y
         IN  <<m>> \o Ascending(S \ {m})

\* The keys of a code_page_mapping_t in the order its iteration visits them
RECURSIVE GraphemeOrder(_, _)
GraphemeOrder(mapping, K) ==
    IF K = {} THEN <<>>
    ELSE LET m == CHOOSE x \in K :
                      \A y \in K : ~GraphemeLess(mapping[y].first, mapping[x].first)
         IN  <<m>> \o GraphemeOrder(mapping, K \ {m})

DecomposedEntry(decomposed, entry, tmp) ==
    IF GraphemeEq(entry.first, tmp) THEN decomposed
    ELSE MapAssign(decomposed, tmp, entry.second)

RECURSIVE DecomposedLoop(_, _, _, _)
DecomposedLoop(normalized, keys, rules, decomposed) ==
    IF keys = <<>> THEN decomposed
    ELSE DecomposedLoop(normalized, Tail(keys), rules,
             DecomposedEntry(decomposed, normalized[Head(keys)],
                             Decompose(normalized[Head(keys)].first, rules)))

construct_decomposed(normalized, rules) ==
    DecomposedLoop(normalized, GraphemeOrder(normalized, DOMAIN normalized),
                   rules, EmptyMap)

\* construct_mapping()::add_to_mappings; m holds new_mapping, new_mapping_reverse
\* and the registry (for the log)
AddToForward(m1, first, second) ==
    IF IsEmpty(second) \/ ~IsValid(second) THEN m1
    ELSE IF ~MapHas(m1.new_mapping, Key(second))
    THEN [m1 EXCEPT !.new_mapping =
                        MapPut(@, Key(second), [first |-> second, second |-> first])]
    ELSE [m1 EXCEPT !.r = Logged(@, <<"Mapping uses a code point twice", "", first>>)]

\* add_to_mappings going on to the forward map when the byte already has a
\* reverse entry
add_to_mappings_forward_always(m, code_page, first, second) ==
    IF first < decode_threshold_non_ascii THEN m
    ELSE AddToForward([m EXCEPT !.new_mapping_reverse =
                                    add_if_not_mapped(@, first, second)],
                      first, second)

\* add_to_mappings with operator[] assignments in place of add_if_not_mapped
add_to_mappings_overwriting(m, code_page, first, second) ==
    IF first < decode_threshold_non_ascii THEN m
    ELSE IF IsEmpty(second) \/ ~IsValid(second)
    THEN [m EXCEPT !.new_mapping_reverse = MapPut(@, first, second)]
    ELSE [m EXCEPT !.new_mapping_reverse = MapPut(@, first, second),
                   !.new_mapping =
                       MapPut(@, Key(second), [first |-> second, second |-> first])]

add_to_mappings(m, code_page, first, second) ==
    IF first < decode_threshold_non_ascii THEN m
    ELSE IF MapHas(m.new_mapping_reverse, first) THEN m
    ELSE AddToForward([m EXCEPT !.new_mapping_reverse = MapPut(@, first, second)],
                      first, second)

\* for (const auto& entry : mapping) add_to_mappings(entry.first, entry.second)
\* over a code_page_mapping_reverse_t
RECURSIVE AddReverseEntries(_, _, _, _)
AddReverseEntries(m, code_page, mapping, bytes) ==
    IF bytes = <<>> THEN m
    ELSE AddReverseEntries(add_to_mappings(m, code_page, Head(bytes),
                                           mapping[Head(bytes)]),
                           code_page, mapping, Tail(bytes))

\* for (const auto& entry : mapping) add_to_mappings(entry.second, entry.first)
\* over a code_page_mapping_t
RECURSIVE AddForwardEntries(_, _, _, _)
AddForwardEntries(m, code_page, mapping, keys) ==
    IF keys = <<>> THEN m
    ELSE AddForwardEntries(add_to_mappings(m, code_page, mapping[Head(keys)].second,
                                           mapping[Head(keys)].first),
                           code_page, mapping, Tail(keys))

\* The iteration without the test that the alias is not yet in the table
AliasEntryLastWins(mapping, aliases_normalized, from, to) ==
    IF /\ ~MapHas(mapping, Key(from))
       /\ MapHas(mapping, Key(to))
    THEN MapAssign(aliases_normalized, from, mapping[Key(to)].second)
    ELSE aliases_normalized

\* One iteration of the loop of construct_aliases over config_aliases
AliasEntry(mapping, aliases_normalized, from, to) ==
    IF /\ ~MapHas(mapping, Key(from))
       /\ MapHas(mapping, Key(to))
       /\ ~MapHas(aliases_normalized, Key(from))
    THEN MapAssign(aliases_normalized, from, mapping[Key(to)].second)
    ELSE aliases_normalized

RECURSIVE AliasesLoop(_, _, _)
AliasesLoop(mapping, aliases, aliases_normalized) ==
    IF aliases = <<>> THEN aliases_normalized
    ELSE AliasesLoop(mapping, Tail(aliases),
                     AliasEntry(mapping, aliases_normalized,
                                GraphemeOf(Head(aliases)[1]),
                                GraphemeOf(Head(aliases)[2])))

StoreAliases(r, code_page, aliases_normalized) ==
    [r EXCEPT !.aliases_normalized_by_codepage =
                  MapPut(@, code_page, aliases_normalized),
              !.aliases_decomposed_by_codepage =
                  MapPut(@, code_page,
                         construct_decomposed(aliases_normalized,
                                              r.decomposition_rules))]

\* An assert() group of function `at` was evaluated for code_page
Asserted(r, at, code_page, holds) ==
    [r EXCEPT !.asserted =
                  @ \cup {[at |-> at, code_page |-> code_page, holds |-> holds]}]

\* The three assert() of construct_aliases
AliasesAsserts(r, code_page) ==
    /\ ~MapHas(r.aliases_normalized_by_codepage, code_page)
    /\ ~MapHas(r.aliases_decomposed_by_codepage, code_page)
    /\ MapHas(r.mappings_normalized_by_codepage, code_page)

\* mappings_normalized_by_codepage[code_page], which creates the entry when
\* it is missing
NormalizedOf(r, code_page) ==
    IF MapHas(r.mappings_normalized_by_codepage, code_page) THEN r
    ELSE [r EXCEPT !.mappings_normalized_by_codepage = MapPut(@, code_page, EmptyMap)]

ConstructAliasesBody(r, code_page) ==
    StoreAliases(r, code_page,
        AliasesLoop(r.mappings_normalized_by_codepage[code_page], r.config_aliases,
                    IF MapHas(r.aliases_normalized_by_codepage, code_page)
                    THEN r.aliases_normalized_by_codepage[code_page]
                    ELSE EmptyMap))

construct_aliases(r, code_page) ==
    ConstructAliasesBody(
        NormalizedOf(Asserted(r, "construct_aliases", code_page,
                              AliasesAsserts(r, code_page)),
                     code_page),
        code_page)

\* The file GetResourcePath(dir) / file_name leads to
ExternalFile(d, dir, file_name) ==
    IF <<dir, file_name>> \in DOMAIN d.external THEN d.external[<<dir, file_name>>]
    ELSE FileMissing

\* construct_mapping and prepare_code_page call each other; each gives the
\* registry after the call and the returned value.  d is the disk.  In the
\* steps of construct_mapping, m holds new_mapping, new_mapping_reverse and the
\* registry.
RECURSIVE construct_mapping(_, _, _)
RECURSIVE prepare_code_page(_, _, _)

\* construct_mapping: "mappings_normalized_by_codepage[code_page] = new_mapping"
\* to the end
StoreMappings(m, code_page) ==
    [r |-> [m.r EXCEPT
              !.mappings_normalized_by_codepage = MapPut(@, code_page, m.new_mapping),
              !.mappings_reverse_by_codepage =
                  MapPut(@, code_page, m.new_mapping_reverse),
              !.mappings_decomposed_by_codepage =
                  MapPut(@, code_page,
                         construct_decomposed(m.new_mapping, m.r.decomposition_rules))],
     ok |-> TRUE]

\* construct_mapping: the entries of the external file, once it is imported
AddFileEntries(m, code_page, imp) ==
    IF ~imp.ok THEN [r |-> imp.r, ok |-> FALSE]
    ELSE StoreMappings(AddReverseEntries([m EXCEPT !.r = imp.r], code_page,
                                         imp.mapping, Ascending(DOMAIN imp.mapping)),
                       code_page)

\* construct_mapping from "if (!config_mapping.extends_file.empty())" on
ConstructFromFile(m, d, code_page, config_mapping) ==
    AddFileEntries(m, code_page,
        IF config_mapping.extends_file # ""
        THEN import_mapping_code_page(m.r,
                 ExternalFile(d, config_mapping.extends_dir, config_mapping.extends_file),
                 config_mapping.extends_file)
        ELSE [r |-> m.r, ok |-> TRUE, mapping |-> EmptyMap])

\* construct_mapping: the entries of the dependency, once it is prepared (dep)
AddDependencyEntries(m, d, code_page, config_mapping, dependency, dep) ==
    IF ~dep.ok
    THEN [r |-> Logged(dep.r, <<"Code page mapping requires code page mapping",
                                "", code_page>>),
          ok |-> FALSE]
    ELSE ConstructFromFile(
             AddForwardEntries([m EXCEPT !.r = dep.r], code_page,
                 dep.r.mappings_normalized_by_codepage[dependency],
                 GraphemeOrder(dep.r.mappings_normalized_by_codepage[dependency],
                     DOMAIN dep.r.mappings_normalized_by_codepage[dependency])),
             d, code_page, config_mapping)

ConstructFromDependency(m, d, code_page, config_mapping, dependency) ==
    AddDependencyEntries(m, d, code_page, config_mapping, dependency,
                         prepare_code_page(m.r, d, dependency))

\* construct_mapping from "if (config_mapping.extends_code_page)" on
ConstructExtensions(m, d, code_page, config_mapping) ==
    IF config_mapping.extends_code_page # 0
    THEN ConstructFromDependency(m, d, code_page, config_mapping,
             deduplicate_code_page(m.r, config_mapping.extends_code_page))
    ELSE ConstructFromFile(m, d, code_page, config_mapping)

\* construct_mapping after the already_tried guard; r1 has code_page inserted
ConstructDirect(r1, d, code_page, config_mapping) ==
    ConstructExtensions(
        AddReverseEntries([new_mapping |-> EmptyMap,
                           new_mapping_reverse |-> EmptyMap,
                           r |-> r1],
                          code_page, config_mapping.mapping,
                          Ascending(DOMAIN config_mapping.mapping)),
        d, code_page, config_mapping)

\* construct_mapping forgetting the code pages whose construction failed
ForgetFailure(built, code_page) ==
    IF built.ok THEN built
    ELSE [built EXCEPT !.r.already_tried = @ \ {code_page}]

\* The four assert() of construct_mapping
MappingAsserts(r, code_page) ==
    /\ MapHas(r.config_mappings, code_page)
    /\ ~MapHas(r.mappings_normalized_by_codepage, code_page)
    /\ ~MapHas(r.mappings_decomposed_by_codepage, code_page)
    /\ ~MapHas(r.mappings_reverse_by_codepage, code_page)

\* construct_mapping past its guard: already_tried.insert and the assert()
PastGuard(r, code_page) ==
    Asserted([r EXCEPT !.already_tried = @ \cup {code_page},
                       !.construct_runs = @ (+) SetToBag({code_page})],
             "construct_mapping", code_page, MappingAsserts(r, code_page))

construct_mapping_retrying(r, d, code_page) ==
    IF code_page \in r.already_tried THEN [r |-> r, ok |-> FALSE]
    ELSE ForgetFailure(
             ConstructDirect(PastGuard(r, code_page), d, code_page,
                             EntryOf(r.config_mappings, code_page)),
             code_page)

construct_mapping(r, d, code_page) ==
    IF code_page \in r.already_tried THEN [r |-> r, ok |-> FALSE]
    ELSE ConstructDirect(PastGuard(r, code_page), d, code_page,
                         EntryOf(r.config_mappings, code_page))

\* prepare_code_page calling construct_aliases whatever construct_mapping
\* returned
PrepareBuiltAliasesAlways(built, code_page) ==
    [r |-> construct_aliases(built.r, code_page), ok |-> built.ok]

\* prepare_code_page once construct_mapping has returned (built)
PrepareBuilt(built, code_page) ==
    IF ~built.ok
    THEN [r |-> [built.r EXCEPT
                   !.mappings_normalized_by_codepage = MapErase(@, code_page),
                   !.mappings_decomposed_by_codepage = MapErase(@, code_page),
                   !.mappings_reverse_by_codepage = MapErase(@, code_page)],
          ok |-> FALSE]
    ELSE [r |-> construct_aliases(built.r, code_page), ok |-> TRUE]

prepare_code_page(r, d, code_page) ==
    IF MapHas(r.mappings_normalized_by_codepage, code_page) THEN [r |-> r, ok |-> TRUE]
    ELSE PrepareBuilt(IF MapHas(r.config_mappings, code_page)
                      THEN construct_mapping(r, d, code_page)
                      ELSE [r |-> r, ok |-> FALSE],
                      code_page)

load_config_if_needed(r, d) ==
    IF r.config_loaded THEN r
    ELSE [import_config_main(
              import_mapping_ascii(
                  import_decomposition(r, d.decomposition), d.ascii), d.main)
          EXCEPT !.config_loaded = TRUE]

\* The code-page getters give the registry after the call and the code page;
\* p is what prepare_code_page returned
DefaultCodePageOf(p) ==
    IF ~p.ok THEN [r |-> warn_default_code_page(p.r), cp |-> 0]
    ELSE [r |-> p.r, cp |-> default_code_page]

get_default_code_page(r, d) ==
    DefaultCodePageOf(prepare_code_page(r, d, default_code_page))

\* get_custom_code_page without the call of get_default_code_page
CustomCodePageNoFallback(p, d, code_page) ==
    [r |-> p.r, cp |-> IF p.ok THEN code_page ELSE 0]

CustomCodePageOf(p, d, code_page) ==
    IF ~p.ok THEN get_default_code_page(p.r, d)
    ELSE [r |-> p.r, cp |-> code_page]

CustomCodePagePrepare(r, d, code_page) ==
    CustomCodePageOf(prepare_code_page(r, d, code_page), d, code_page)

get_custom_code_page(r, d, custom_code_page) ==
    IF custom_code_page = 0 THEN [r |-> r, cp |-> 0]
    ELSE CustomCodePagePrepare(r, d, deduplicate_code_page(r, custom_code_page))

Utf8CodePageOf(p, d, code_page) ==
    IF p.ok THEN [r |-> p.r, cp |-> code_page]
    ELSE get_default_code_page(p.r, d)

Utf8CodePagePrepare(r1, d, code_page) ==
    Utf8CodePageOf(prepare_code_page(r1, d, code_page), d, code_page)

Utf8CodePageLoaded(r1, d, loaded) ==
    Utf8CodePagePrepare(r1, d, deduplicate_code_page(r1, loaded))

get_utf8_code_page(r, d, egavga, loaded) ==
    IF ~egavga THEN get_default_code_page(r, d)
    ELSE Utf8CodePageLoaded(load_config_if_needed(r, d), d, loaded)

---------------------------------------------------------------------------
(* External interface.  Each public function is an action: it runs to      *)
(* completion on the registry and leaves its arguments, locals and results *)
(* in call.  call.round_trip_of is the caller's: the DOS string whose      *)
(* conversion gave str_in, when the caller converts a result back.         *)

NoCall ==
    [op |-> "none", code_page |-> 0, str_in |-> <<>>, cp |-> 0,
     str_wide |-> <<>>, decode_iters |-> <<>>, push_iters |-> <<>>,
     str_out |-> <<>>, status1 |-> TRUE, status2 |-> TRUE, status |-> TRUE,
     round_trip |-> FALSE, round_trip_of |-> <<>>]

\* The code page a conversion runs under; r1 is the registry after
\* load_config_if_needed
ConversionCodePage(r1, d, egavga, loaded, explicit, code_page) ==
    IF explicit THEN get_custom_code_page(r1, d, code_page)
    ELSE get_utf8_code_page(r1, d, egavga, loaded)

Utf8ToDosResult(str_in, explicit, code_page, g, w, x) ==
    [r |-> x.r,
     call |-> [op |-> IF explicit THEN "utf8_to_dos_cp" ELSE "utf8_to_dos",
               code_page |-> IF explicit THEN code_page ELSE 0,
               str_in |-> str_in, cp |-> g.cp,
               str_wide |-> w.str_out, decode_iters |-> w.iters,
               push_iters |-> x.iters, str_out |-> x.str_out,
               status1 |-> w.status, status2 |-> x.status,
               status |-> w.status /\ x.status,
               round_trip |-> FALSE, round_trip_of |-> <<>>]]

Utf8ToDosConvert(str_in, explicit, code_page, g, w) ==
    Utf8ToDosResult(str_in, explicit, code_page, g, w,
                    wide_to_dos(g.r, w.str_out, g.cp))

\* The two utf8_to_dos overloads: explicit tells which
utf8_to_dos(r, d, egavga, loaded, str_in, explicit, code_page) ==
    Utf8ToDosConvert(str_in, explicit, code_page,
        ConversionCodePage(load_config_if_needed(r, d), d, egavga, loaded,
                           explicit, code_page),
        utf8_to_wide(str_in))

DosToUtf8Result(str_in, explicit, code_page, g, str_wide) ==
    [r |-> g.r,
     call |-> [NoCall EXCEPT
                 !.op = IF explicit THEN "dos_to_utf8_cp" ELSE "dos_to_utf8",
                 !.code_page = IF explicit THEN code_page ELSE 0,
                 !.str_in = str_in, !.cp = g.cp, !.str_wide = str_wide,
                 !.str_out = wide_to_utf8(str_wide)]]

DosToUtf8Convert(str_in, explicit, code_page, g) ==
    DosToUtf8Result(str_in, explicit, code_page, g, dos_to_wide(g.r, str_in, g.cp))

\* The two dos_to_utf8 overloads
dos_to_utf8(r, d, egavga, loaded, str_in, explicit, code_page) ==
    DosToUtf8Convert(str_in, explicit, code_page,
        ConversionCodePage(load_config_if_needed(r, d), d, egavga, loaded,
                           explicit, code_page))

GetUtf8CodePageResult(g) ==
    [r |-> g.r, call |-> [NoCall EXCEPT !.op = "get_utf8_code_page", !.cp = g.cp]]

Returns(res) ==
    /\ SetReg(res.r)
    /\ call' = res.call
    /\ UNCHANGED <<disk, machine_egavga, loaded_codepage>>

\* uint16_t get_utf8_code_page()
GetUtf8CodePage ==
    Returns(GetUtf8CodePageResult(
                get_utf8_code_page(Reg, disk, machine_egavga, loaded_codepage)))

\* bool utf8_to_dos(const std::string&, std::string&)
Utf8ToDos(str_in) ==
    Returns(utf8_to_dos(Reg, disk, machine_egavga, loaded_codepage, str_in, FALSE, 0))

\* bool utf8_to_dos(const std::string&, std::string&, const uint16_t)
Utf8ToDosCp(str_in, code_page) ==
    Returns(utf8_to_dos(Reg, disk, machine_egavga, loaded_codepage, str_in, TRUE,
                        code_page))

\* void dos_to_utf8(const std::string&, std::string&)
DosToUtf8(str_in) ==
    Returns(dos_to_utf8(Reg, disk, machine_egavga, loaded_codepage, str_in, FALSE, 0))

\* void dos_to_utf8(const std::string&, std::string&, const uint16_t)
DosToUtf8Cp(str_in, code_page) ==
    Returns(dos_to_utf8(Reg, disk, machine_egavga, loaded_codepage, str_in, TRUE,
                        code_page))

\* The caller passes the result of dos_to_utf8(str, code_page) to
\* utf8_to_dos under the same code page
RoundTripOf(res, dos_str) ==
    [res EXCEPT !.call.round_trip = TRUE, !.call.round_trip_of = dos_str]

ConvertBack ==
    /\ call.op = "dos_to_utf8_cp"
    /\ Returns(RoundTripOf(utf8_to_dos(Reg, disk, machine_egavga, loaded_codepage,
                                       call.str_out, TRUE, call.code_page),
                           call.str_in))

\* The emulated DOS loads another code page: dos.loaded_codepage is written
\* outside this translation unit
LoadCodePage(code_page) ==
    /\ code_page # loaded_codepage
    /\ loaded_codepage' = code_page
    /\ UNCHANGED <<disk, machine_egavga, config_loaded, config_mappings,
                   config_duplicates, config_aliases, mapping_ascii,
                   decomposition_rules, mappings_normalized_by_codepage,
                   mappings_decomposed_by_codepage, aliases_normalized_by_codepage,
                   aliases_decomposed_by_codepage, mappings_reverse_by_codepage,
                   already_tried, warned_code_points, warned_code_pages,
                   warned_default, log, construct_runs, asserted, call>>

\* The state before the first call: the static initializers
InitRegistry ==
    /\ config_loaded = FALSE
    /\ config_mappings = EmptyMap
    /\ config_duplicates = EmptyMap
    /\ config_aliases = <<>>
    /\ mapping_ascii = EmptyMap
    /\ decomposition_rules = EmptyMap
    /\ mappings_normalized_by_codepage = EmptyMap
    /\ mappings_decomposed_by_codepage = EmptyMap
    /\ aliases_normalized_by_codepage = EmptyMap
    /\ aliases_decomposed_by_codepage = EmptyMap
    /\ mappings_reverse_by_codepage = EmptyMap
    /\ already_tried = {}
    /\ warned_code_points = {}
    /\ warned_code_pages = {}
    /\ warned_default = FALSE
    /\ log = EmptyBag
    /\ construct_runs = EmptyBag
    /\ asserted = {}
    /\ call = NoCall

---------------------------------------------------------------------------
(* The process in its environment: any sequence of public calls, on a disk *)
(* whose code pages cover the shapes the builder distinguishes.            *)
(*   437  the default code page                                            *)
(*   850  extends 437;  858 duplicates 850                                 *)
(*   852  and 853 extend each other                                        *)
(*   999  is not configured                                                *)
(* Code points: 65 'A', 197 A with ring (0xc5), 216 O with stroke (0xd8),  *)
(* 778 combining ring (0x30a), 26085 (0x65e5, three bytes in UTF-8).       *)

AsciiStandard == File(<<LAscii(216, 79), LAscii(8491, 65)>>)
DecompositionStandard ==
    File(<<LRule(197, 65, <<778>>), LRule(8491, 65, <<778>>)>>)

Block437 == <<LCodePage(437), LMapping(143, <<197>>), LUndefined(128)>>
Block437File == <<LCodePage(437), LExtendsFile("mapping", "CP437.TXT")>>
Block437Cycle == <<LCodePage(437), LMapping(143, <<197>>), LExtendsCodePage(850)>>
BlockOthers ==
    <<LCodePage(850), LMapping(157, <<216>>), LExtendsCodePage(437),
      LDuplicates(858, 850),
      LCodePage(852), LExtendsCodePage(853),
      LCodePage(853), LExtendsCodePage(852),
      LAlias(8491, 197)>>

File437 == File(<<LMapping(143, <<197>>), LUndefined(128)>>)

Disk(main, ascii, decomposition, cp437) ==
    [main |-> main, ascii |-> ascii, decomposition |-> decomposition,
     external |-> (<<"mapping", "CP437.TXT">> :> cp437)]

MainFiles ==
    { File(Block437 \o BlockOthers),
      File(BlockOthers),
      File(Block437Cycle \o BlockOthers),
      File(Block437 \o BlockOthers \o <<LMalformed>>),
      FileReadError(Block437 \o BlockOthers),
      FileMissing }

Disks ==
    { Disk(main, ascii, DecompositionStandard, FileMissing) :
          main \in MainFiles, ascii \in {AsciiStandard, FileMissing} }
    \cup
    { Disk(File(Block437File \o BlockOthers), AsciiStandard, DecompositionStandard, f) :
          f \in {File437, FileMissing, File(<<LMalformed>>), File(<<>>)} }

\* The code pages callers ask for, and those the emulated DOS has loaded
RequestedCodePages == {0, 437, 858, 852, 999}
LoadedCodePages == {0, 437, 858, 999}

\* UTF-8 and DOS strings callers pass
Utf8Inputs ==
    { wide_to_utf8(w) : w \in {<<65>>, <<197>>, <<216>>, <<26085, 26085>>} }
DosInputs == { <<65>>, <<143>> }

Init ==
    /\ disk \in Disks
    /\ machine_egavga \in BOOLEAN
    /\ loaded_codepage = 437
    /\ InitRegistry

Next ==
    \/ GetUtf8CodePage
    \/ \E str_in \in Utf8Inputs : Utf8ToDos(str_in)
    \/ \E str_in \in Utf8Inputs, code_page \in RequestedCodePages :
           Utf8ToDosCp(str_in, code_page)
    \/ \E str_in \in DosInputs : DosToUtf8(str_in)
    \/ \E str_in \in DosInputs, code_page \in RequestedCodePages :
           DosToUtf8Cp(str_in, code_page)
    \/ \E code_page \in LoadedCodePages : LoadCodePage(code_page)

Spec == Init /\ [][Next]_vars

---------------------------------------------------------------------------
(* Conversions on a fresh process, over generated tables.  The code page   *)
(* 437 block of MAIN.TXT gives bytes 0x80 (128) and 0x8f (143) each one of *)
(* several meanings, so that the tables hold duplicates, 7-bit code points,*)
(* graphemes with marks and undefined bytes; aliases, the ASCII fallback   *)
(* and the decomposition rules are present or not.  126 is '~' (0x7e),     *)
(* 8491 the Angstrom sign (0x212b).                                        *)

MaxWideLen == 2
MaxDosLen == 2

SeqsUpTo(S, n) == UNION { [1..k -> S] : k \in 0..n }

Entries128 ==
    { <<>>, <<LUndefined(128)>>, <<LMapping(128, <<197>>)>>,
      <<LMapping(128, <<65, 778>>)>>, <<LMapping(128, <<65>>)>> }
Entries143 ==
    { <<>>, <<LMapping(143, <<197>>)>>, <<LMapping(143, <<8491>>)>>,
      <<LMapping(143, <<26085>>)>> }
ConvAliases == { <<>>, <<LAlias(8491, 197)>> }
ConvAscii == { FileMissing, File(<<LAscii(197, 65), LAscii(8491, 65)>>) }
ConvDecomposition ==
    { FileMissing, DecompositionStandard, File(<<LRule(8491, 65, <<778>>)>>) }

ConvDisks ==
    { Disk(File(<<LCodePage(437)>> \o e128 \o e143 \o aliases), ascii, decomposition,
           FileMissing) :
          e128 \in Entries128, e143 \in Entries143, aliases \in ConvAliases,
          ascii \in ConvAscii, decomposition \in ConvDecomposition }

ConvCodePages == {0, 437}
ConvUtf8Inputs ==
    { wide_to_utf8(w) : w \in SeqsUpTo({65, 126, 197, 778, 8491, 26085}, MaxWideLen) }
ConvDosInputs == SeqsUpTo({1, 65, 126, 127, 128, 143}, MaxDosLen)

ConvInit ==
    /\ disk \in ConvDisks
    /\ machine_egavga = TRUE
    /\ loaded_codepage = 437
    /\ InitRegistry

FirstUtf8ToDos ==
    /\ call.op = "none"
    /\ \E str_in \in ConvUtf8Inputs : Utf8ToDos(str_in)

FirstUtf8ToDosCp ==
    /\ call.op = "none"
    /\ \E str_in \in ConvUtf8Inputs, code_page \in ConvCodePages :
           Utf8ToDosCp(str_in, code_page)

FirstDosToUtf8Cp ==
    /\ call.op = "none"
    /\ \E str_in \in ConvDosInputs, code_page \in ConvCodePages :
           DosToUtf8Cp(str_in, code_page)

ConvNext ==
    \/ FirstUtf8ToDos
    \/ FirstUtf8ToDosCp
    \/ FirstDosToUtf8Cp
    \/ ConvertBack

SpecConv == ConvInit /\ [][ConvNext]_vars

---------------------------------------------------------------------------
(* The decoder on arbitrary bytes: 65 'A', 133 (0x85) a continuation byte, *)
(* 195 (0xc3) a 2-byte lead, 230 (0xe6) a 3-byte lead, 240, 248 and 252    *)
(* (0xf0, 0xf8, 0xfc) the 4-, 5- and 6-byte leads.                         *)

MaxRawLen == 3

RawInputs == SeqsUpTo({65, 133, 195, 230, 240, 248, 252}, MaxRawLen)

CodecInit ==
    /\ disk = Disk(File(Block437 \o BlockOthers), AsciiStandard,
                   DecompositionStandard, FileMissing)
    /\ machine_egavga \in BOOLEAN
    /\ loaded_codepage = 437
    /\ InitRegistry

RawUtf8ToDos ==
    /\ call.op = "none"
    /\ \E str_in \in RawInputs : Utf8ToDos(str_in)

RawUtf8ToDosCp ==
    /\ call.op = "none"
    /\ \E str_in \in RawInputs : Utf8ToDosCp(str_in, default_code_page)

CodecNext ==
    \/ RawUtf8ToDos
    \/ RawUtf8ToDosCp

SpecCodec == CodecInit /\ [][CodecNext]_vars

---------------------------------------------------------------------------
(* The loader and the builder on generated files: MAIN.TXT is any sequence *)
(* of up to MaxMainLines lines of the forms the parser distinguishes, or   *)
(* the other files are missing, empty, unreadable or hold a line that does *)
(* not parse.                                                              *)

MaxMainLines == 4

MainAlphabet ==
    { LCodePage(437), LCodePage(850), LDuplicates(850, 437), LExtendsCodePage(437),
      LExtendsFile("mapping", "CP437.TXT"), LAlias(8491, 197),
      LMapping(143, <<197>>), LUndefined(128), LMalformed }

GeneratedMainFiles == { File(lines) : lines \in SeqsUpTo(MainAlphabet, MaxMainLines) }

BrokenMainFiles ==
    { FileMissing, FileReadError(Block437 \o BlockOthers),
      File(<<LCodePage(437), LMapping(143, <<778>>)>>),
      File(<<LCodePage(437), LExtendsCodePage(850), LAlias(8491, 197)>>) }

AsciiFiles ==
    { AsciiStandard, FileMissing, File(<<>>), File(<<LAscii(216, 79), LMalformed>>),
      FileReadError(<<LAscii(216, 79)>>) }

DecompositionFiles ==
    { DecompositionStandard, FileMissing, File(<<>>),
      File(<<LRule(197, 65, <<778>>), LRule(8491, 65, <<65>>)>>),
      File(<<LRule(197, 65, <<778>>), LRule(8491, 65, <<>>)>>),
      FileReadError(<<LRule(197, 65, <<778>>)>>) }

ExternalFiles ==
    { File437, FileMissing, File(<<>>), File(<<LMapping(143, <<197>>), LMalformed>>),
      File(<<LUndefined(128), LMapping(143, <<778>>)>>),
      FileReadError(<<LMapping(143, <<197>>)>>) }

\* Code page 437 with one or two mapped bytes and up to MaxAliasLines ALIAS
\* lines
MaxAliasLines == 2

AliasAlphabet ==
    { LAlias(8491, 197), LAlias(8491, 216), LAliasBidirectional(197, 8491),
      LAlias(197, 216), LAlias(778, 197) }

MappedBytes ==
    { <<LMapping(143, <<197>>)>>, <<LMapping(128, <<216>>)>>,
      <<LMapping(143, <<197>>), LMapping(128, <<216>>)>> }

AliasMainFiles ==
    { File(<<LCodePage(437)>> \o mapped \o aliases) :
          mapped \in MappedBytes, aliases \in SeqsUpTo(AliasAlphabet, MaxAliasLines) }

\* Code pages 437 and 850 with up to MaxDirectLines byte lines each; 850
\* extends 437, or the external file, or nothing
MaxDirectLines == 2

MappingAlphabet ==
    { LMapping(143, <<197>>), LMapping(143, <<216>>), LMapping(128, <<197>>),
      LUndefined(128), LMapping(65, <<216>>), LMapping(128, <<65, 807, 778>>) }

BuiltMainFiles ==
    { File(<<LCodePage(437)>> \o direct437 \o <<LCodePage(850)>> \o direct850
           \o extends) :
          direct437 \in SeqsUpTo(MappingAlphabet, MaxDirectLines),
          direct850 \in SeqsUpTo(MappingAlphabet, MaxDirectLines),
          extends \in { <<>>, <<LExtendsCodePage(437)>>,
                        <<LExtendsFile("mapping", "CP437.TXT")>> } }

LoadDisks ==
    { Disk(main, AsciiStandard, DecompositionStandard, File437) :
          main \in GeneratedMainFiles \cup BrokenMainFiles \cup AliasMainFiles
                   \cup BuiltMainFiles }
    \cup
    { Disk(File(Block437File \o BlockOthers), ascii, decomposition, f) :
          ascii \in AsciiFiles, decomposition \in DecompositionFiles,
          f \in ExternalFiles }

LoadCodePages == {437, 850}

LoadInit ==
    /\ disk \in LoadDisks
    /\ machine_egavga = TRUE
    /\ loaded_codepage = 437
    /\ InitRegistry

LoadNext ==
    \/ GetUtf8CodePage
    \/ \E code_page \in LoadCodePages : DosToUtf8Cp(<<128, 143>>, code_page)
    \/ \E code_page \in LoadCodePages :
           Utf8ToDosCp(wide_to_utf8(<<8491>>), code_page)

SpecLoad == LoadInit /\ [][LoadNext]_vars

---------------------------------------------------------------------------
(* One Grapheme object under any sequence of its operations, with the      *)
(* decomposition rules of a generated DECOMPOSITION.TXT.  call holds the    *)
(* last operation, its argument, the object before it and the object now;  *)
(* Decompose runs one iteration of its loop per step, call.pc tells        *)
(* whether the object is inside the loop.  769 is the combining acute      *)
(* (0x301), 807 the combining cedilla (0x327).                             *)

MaxRuleLines == 2

RuleAlphabet ==
    { LRule(197, 65, <<778>>), LRule(8491, 197, <<769>>), LRule(65, 8491, <<807>>),
      LRule(197, 778, <<769>>), LRule(216, 216, <<807>>), LRule(8491, 65, <<65>>) }

GraphemeDisks ==
    { Disk(File(Block437 \o BlockOthers), AsciiStandard, File(rules), FileMissing) :
          rules \in SeqsUpTo(RuleAlphabet, MaxRuleLines) }

GraphemeCodePoints == {65, 197, 216, 8491, 778}
GraphemeMarks == {65, 769, 778, 807}
GraphemeOps ==
    {"Grapheme()", "Grapheme", "AddMark", "StripMarks", "Decompose", "Invalidate"}

GraphemeInit ==
    /\ disk \in GraphemeDisks
    /\ machine_egavga = TRUE
    /\ loaded_codepage = 437
    /\ InitRegistry

\* The operation op(arg) has left the object as grapheme; iterations is the
\* parity of the number of iterations a running Decompose has made
GraphemeCall(op, arg, before, grapheme, pc) ==
    /\ call' = [op |-> op, arg |-> arg, before |-> before, grapheme |-> grapheme,
                pc |-> pc,
                iterations |-> IF pc = "loop" /\ call.pc = "loop"
                               THEN 1 - call.iterations ELSE 0]
    /\ UNCHANGED <<disk, machine_egavga, loaded_codepage, config_loaded,
                   config_mappings, config_duplicates, config_aliases, mapping_ascii,
                   decomposition_rules, mappings_normalized_by_codepage,
                   mappings_decomposed_by_codepage, aliases_normalized_by_codepage,
                   aliases_decomposed_by_codepage, mappings_reverse_by_codepage,
                   already_tried, warned_code_points, warned_code_pages,
                   warned_default, log, construct_runs, asserted>>

GraphemeIdle == call.op \in GraphemeOps /\ call.pc = "idle"

\* load_config_if_needed, then Grapheme()
GraphemeLoadConfig ==
    /\ call.op = "none"
    /\ SetReg(load_config_if_needed(Reg, disk))
    /\ call' = [op |-> "Grapheme()", arg |-> 0, before |-> GraphemeDefault,
                grapheme |-> GraphemeDefault, pc |-> "idle", iterations |-> 0]
    /\ UNCHANGED <<disk, machine_egavga, loaded_codepage>>

GraphemeConstruct(code_point) ==
    /\ GraphemeIdle
    /\ GraphemeCall("Grapheme", code_point, GraphemeDefault, GraphemeOf(code_point),
                    "idle")

GraphemeAddMark(code_point) ==
    /\ GraphemeIdle
    /\ GraphemeCall("AddMark", code_point, call.grapheme,
                    AddMark(call.grapheme, code_point), "idle")

GraphemeStripMarks ==
    /\ GraphemeIdle
    /\ GraphemeCall("StripMarks", 0, call.grapheme, StripMarks(call.grapheme), "idle")

GraphemeInvalidate ==
    /\ GraphemeIdle
    /\ GraphemeCall("Invalidate", 0, call.grapheme, Invalidate(call.grapheme), "idle")

\* Decompose is called: it returns at once for an invalid or empty object
GraphemeDecompose ==
    /\ GraphemeIdle
    /\ GraphemeCall("Decompose", 0, call.grapheme, call.grapheme,
                    IF ~call.grapheme.is_valid \/ call.grapheme.is_empty
                    THEN "idle" ELSE "loop")

\* One iteration of the while loop
GraphemeDecomposeIteration ==
    /\ call.op = "Decompose" /\ call.pc = "loop"
    /\ call.grapheme.code_point \in DOMAIN decomposition_rules
    /\ GraphemeCall("Decompose", 0, call.before,
                    DecomposeIteration(call.grapheme, decomposition_rules), "loop")

\* The while condition is false: Decompose returns
GraphemeDecomposeReturn ==
    /\ call.op = "Decompose" /\ call.pc = "loop"
    /\ call.grapheme.code_point \notin DOMAIN decomposition_rules
    /\ GraphemeCall("Decompose", 0, call.before, call.grapheme, "idle")

GraphemeNext ==
    \/ GraphemeLoadConfig
    \/ \E code_point \in GraphemeCodePoints : GraphemeConstruct(code_point)
    \/ \E code_point \in GraphemeMarks : GraphemeAddMark(code_point)
    \/ GraphemeStripMarks
    \/ GraphemeInvalidate
    \/ GraphemeDecompose
    \/ GraphemeDecomposeIteration
    \/ GraphemeDecomposeReturn

\* Decompose is not pre-empted: a loop that can go on does
SpecGrapheme ==
    /\ GraphemeInit
    /\ [][GraphemeNext]_vars
    /\ WF_vars(GraphemeDecomposeIteration)
    /\ WF_vars(GraphemeDecomposeReturn)

---------------------------------------------------------------------------
(* Properties of the conversions                                           *)

Utf8ToDosOps == {"utf8_to_dos", "utf8_to_dos_cp"}
ExplicitOps == {"utf8_to_dos_cp", "dos_to_utf8_cp"}
ConversionOps == Utf8ToDosOps \cup {"dos_to_utf8", "dos_to_utf8_cp"}

\* C1: utf8_to_dos emits exactly one byte per assembled grapheme: the length
\* of the output is the number of decoded code points that are not combining
\* marks, plus one when the decoded sequence starts with a combining mark.
C1_OneBytePerGrapheme ==
    call.op \in Utf8ToDosOps =>
        Len(call.str_out) =
            Cardinality({k \in 1..Len(call.str_wide) :
                             ~is_combining_mark(call.str_wide[k])})
            + (IF call.str_wide # <<>> /\ is_combining_mark(call.str_wide[1])
               THEN 1 ELSE 0)

\* 'A' followed by a combining ring went through the strip-marks retry and
\* gave the single byte 'A'
C1_Witness ==
    /\ call.op = "utf8_to_dos_cp"
    /\ call.str_wide = <<65, 778>>
    /\ Len(call.push_iters) = 1
    /\ call.push_iters[1].push.step = "stripped"
    /\ call.str_out = <<65>>

RECURSIVE Flatten(_)
Flatten(ss) == IF ss = <<>> THEN <<>> ELSE Head(ss) \o Flatten(Tail(ss))

\* What the sentence on bytes >= 0x80 gives for one byte of the input
ExpectedWide(byte) ==
    IF byte < decode_threshold_non_ascii THEN dos_to_wide_byte(Reg, byte, call.cp)
    ELSE IF /\ call.cp \in DOMAIN mappings_reverse_by_codepage
            /\ byte \in DOMAIN mappings_reverse_by_codepage[call.cp]
            /\ ~IsEmpty(mappings_reverse_by_codepage[call.cp][byte])
            /\ IsValid(mappings_reverse_by_codepage[call.cp][byte])
    THEN <<mappings_reverse_by_codepage[call.cp][byte].code_point>>
         \o mappings_reverse_by_codepage[call.cp][byte].marks
    ELSE <<unknown_character>>

\* C2: in dos_to_utf8 every byte >= 0x80 produces output: the base and marks
\* of its reverse entry when that entry is present, non-empty and valid, and
\* the unknown character 0x3f in every other case, a byte declared undefined
\* included.
C2_HighBytesProduceOutput ==
    call.op = "dos_to_utf8_cp" =>
        /\ call.str_wide =
               Flatten([k \in 1..Len(call.str_in) |-> ExpectedWide(call.str_in[k])])
        /\ call.str_out = wide_to_utf8(call.str_wide)

\* The byte at pos starts a malformed sequence: a lone continuation byte, a
\* 4-, 5- or 6-byte lead, or a 2- or 3-byte lead whose continuation bytes are
\* missing (the input ends) or out of 0x80..0xbf
Malformed(str_in, pos) ==
    LET byte == str_in[pos]
        continued(k) == pos + k <= Len(str_in) /\ IsContinuation(str_in[pos + k])
    IN  \/ IsContinuation(byte)
        \/ byte >= decode_threshold_4_bytes
        \/ /\ byte >= decode_threshold_3_bytes
           /\ byte < decode_threshold_4_bytes
           /\ ~(continued(1) /\ continued(2))
        \/ /\ byte >= decode_threshold_2_bytes
           /\ byte < decode_threshold_3_bytes
           /\ ~continued(1)

\* C3: for every malformed sequence utf8_to_wide emits the unknown character
\* 0x3f as the code point of that position and returns status false.
C3_MalformedGivesSentinel ==
    call.op \in Utf8ToDosOps =>
        \A k \in 1..Len(call.decode_iters) :
            Malformed(call.str_in, call.decode_iters[k].pos) =>
                /\ call.decode_iters[k].code_point = unknown_character
                /\ ~call.status1

\* C4: utf8_to_dos returns false whenever the decoder flagged a sequence, an
\* assembled grapheme was invalid, or a grapheme fell through to the unknown
\* step, and true only when none of these happened.
C4_StatusFlagsEveryFailure ==
    call.op \in Utf8ToDosOps =>
        (call.status <=>
            ~ \/ ~call.status1
              \/ \E k \in 1..Len(call.push_iters) : ~IsValid(call.push_iters[k].grapheme)
              \/ \E k \in 1..Len(call.push_iters) :
                     call.push_iters[k].push.step = "unknown")

StepNames ==
    <<"7bit", "normalized", "alias_normalized", "fallback", "decomposed",
      "alias_decomposed", "stripped", "unknown">>

AnyOk(steps) == \E k \in 1..Len(steps) : steps[k].ok

FirstOk(steps) ==
    CHOOSE k \in 1..Len(steps) : steps[k].ok /\ \A j \in 1..(k - 1) : ~steps[j].ok

\* The first four steps, each on its own
NormalizedSteps(code_page, grapheme) ==
    << push_7bit(grapheme),
       push_code_page(TablePtr(mappings_normalized_by_codepage, code_page),
                      grapheme, "normalized"),
       push_code_page(TablePtr(aliases_normalized_by_codepage, code_page),
                      grapheme, "alias_normalized"),
       push_fallback(Reg, grapheme) >>

\* The retry of the first four steps on the decomposed grapheme without marks
RetryStep(code_page, decomposed) ==
    IF HasMark(decomposed) /\ AnyOk(NormalizedSteps(code_page, StripMarks(decomposed)))
    THEN NormalizedSteps(code_page, StripMarks(decomposed))
             [FirstOk(NormalizedSteps(code_page, StripMarks(decomposed)))]
    ELSE NotPushed

\* The eight steps in the order of the sentence, each on its own
ChainSteps(code_page, grapheme) ==
    NormalizedSteps(code_page, grapheme)
    \o << push_code_page(TablePtr(mappings_decomposed_by_codepage, code_page),
                         Decompose(grapheme, decomposition_rules), "decomposed"),
          push_code_page(TablePtr(aliases_decomposed_by_codepage, code_page),
                         Decompose(grapheme, decomposition_rules), "alias_decomposed"),
          RetryStep(code_page, Decompose(grapheme, decomposition_rules)),
          Pushed(unknown_character, "unknown") >>

\* C5: for each assembled grapheme the byte emitted is the one given by the
\* first step that succeeds in the order 7-bit, normalized table, normalized
\* aliases, ASCII fallback, decomposed table, decomposed aliases, strip-marks
\* retry of the first four, unknown, whatever later steps would have given.
C5_FirstSuccessWins ==
    call.op \in Utf8ToDosOps =>
        \A k \in 1..Len(call.push_iters) :
            LET steps == ChainSteps(call.cp, call.push_iters[k].grapheme)
            IN  /\ call.str_out[k] = steps[FirstOk(steps)].byte
                /\ call.push_iters[k].push.step = StepNames[FirstOk(steps)]

\* The decomposed table gave the byte although the strip-marks retry, later
\* in the order, would have given another one
C5_Witness ==
    /\ call.op \in Utf8ToDosOps
    /\ \E k \in 1..Len(call.push_iters) :
           LET steps == ChainSteps(call.cp, call.push_iters[k].grapheme)
           IN  /\ call.push_iters[k].push.step = "decomposed"
               /\ steps[7].ok
               /\ steps[7].byte # call.str_out[k]

IsPrintableAscii(str) == \A k \in 1..Len(str) : str[k] >= 32 /\ str[k] <= 126

\* C6: for every string s of bytes 0x20..0x7e, dos_to_utf8(s, 437) gives s and
\* utf8_to_dos(s, 437) gives (s, true), whatever tables, aliases and ASCII
\* fallbacks are loaded.
C6_AsciiIdentity ==
    /\ (/\ call.op = "dos_to_utf8_cp"
        /\ call.code_page = default_code_page
        /\ IsPrintableAscii(call.str_in))
       => call.str_out = call.str_in
    /\ (/\ call.op = "utf8_to_dos_cp"
        /\ call.code_page = default_code_page
        /\ IsPrintableAscii(call.str_in))
       => (call.str_out = call.str_in /\ call.status)

\* "A~" came back unchanged although code page 437 maps a byte to 'A'
C6_Witness ==
    /\ call.op = "utf8_to_dos_cp"
    /\ call.code_page = default_code_page
    /\ call.cp = default_code_page
    /\ call.str_in = <<65, 126>>
    /\ MapHas(mappings_normalized_by_codepage[default_code_page], Key(GraphemeOf(65)))
    /\ call.str_out = <<65, 126>>
    /\ call.status

\* The call is the second half of a round trip of one byte >= 0x80 that has
\* a mapping in the prepared code page 437
RoundTripCase ==
    /\ call.round_trip
    /\ call.code_page = default_code_page
    /\ Len(call.round_trip_of) = 1
    /\ call.round_trip_of[1] >= decode_threshold_non_ascii
    /\ default_code_page \in DOMAIN mappings_reverse_by_codepage
    /\ call.round_trip_of[1] \in DOMAIN mappings_reverse_by_codepage[default_code_page]
    /\ ~IsEmpty(mappings_reverse_by_codepage[default_code_page][call.round_trip_of[1]])

\* The grapheme of byte leads back to byte: the forward table holds it with
\* this byte, and it is not a 7-bit code point without marks
LeadsBack(byte) ==
    LET grapheme == mappings_reverse_by_codepage[default_code_page][byte]
        mapping == mappings_normalized_by_codepage[default_code_page]
    IN  /\ MapHas(mapping, Key(grapheme))
        /\ mapping[Key(grapheme)].second = byte
        /\ (HasMark(grapheme) \/ GetCodePoint(grapheme) >= decode_threshold_non_ascii)

\* C7 as stated: for every byte b in 0x80..0xff with a mapping in code page
\* 437, dos_to_utf8([b], 437) converted back by utf8_to_dos(., 437) gives
\* ([b], true).
C7_RoundTrip ==
    RoundTripCase => (call.str_out = call.round_trip_of /\ call.status)

\* C7: the round trip gives ([b], true) for every byte b in 0x80..0xff whose
\* grapheme the forward table of code page 437 maps to b and which is not a
\* 7-bit code point without marks.
C7_RoundTripAmended ==
    (RoundTripCase /\ LeadsBack(call.round_trip_of[1]))
        => (call.str_out = call.round_trip_of /\ call.status)

\* Byte 0x80, mapped to 'A' with a combining ring, came back
C7_Witness ==
    /\ RoundTripCase
    /\ call.round_trip_of = <<128>>
    /\ HasMark(mappings_reverse_by_codepage[default_code_page][128])
    /\ call.str_out = <<128>>
    /\ call.status

---------------------------------------------------------------------------
(* Properties of the choice of the code page                               *)

\* The registry before the first call
FreshRegistry ==
    [config_loaded |-> FALSE,
     config_mappings |-> EmptyMap,
     config_duplicates |-> EmptyMap,
     config_aliases |-> <<>>,
     mapping_ascii |-> EmptyMap,
     decomposition_rules |-> EmptyMap,
     mappings_normalized_by_codepage |-> EmptyMap,
     mappings_decomposed_by_codepage |-> EmptyMap,
     aliases_normalized_by_codepage |-> EmptyMap,
     aliases_decomposed_by_codepage |-> EmptyMap,
     mappings_reverse_by_codepage |-> EmptyMap,
     already_tried |-> {},
     warned_code_points |-> {},
     warned_code_pages |-> {},
     warned_default |-> FALSE,
     log |-> EmptyBag,
     construct_runs |-> EmptyBag,
     asserted |-> {}]

\* A step of one of the four conversion functions
ConversionStep ==
    /\ call'.op \in ConversionOps
    /\ loaded_codepage' = loaded_codepage

\* The code page the step asks for, after deduplication
RequestedCodePage ==
    deduplicate_code_page(load_config_if_needed(Reg, disk),
                          IF call'.op \in ExplicitOps THEN call'.code_page
                          ELSE loaded_codepage)

\* code_page can be prepared in the state the step starts in
CanPrepare(code_page) ==
    prepare_code_page(load_config_if_needed(Reg, disk), disk, code_page).ok

DefaultCodePageWarning == <<"Unable to prepare default code page", "", 0>>

\* When the requested code page cannot be prepared the conversion runs under
\* 437 if 437 can be prepared, and under 0 with the warning otherwise
FallsBackToDefault ==
    ~CanPrepare(RequestedCodePage) =>
        IF CanPrepare(default_code_page)
        THEN call'.cp = default_code_page
        ELSE call'.cp = 0 /\ BagIn(DefaultCodePageWarning, log')

\* C8 as stated: for both entry points and every requested value, an explicit
\* argument of 0 included, a code page that cannot be prepared is replaced by
\* 437 if 437 can be prepared and by 0, with the warning, only otherwise.
C8_FallbackToDefault == [][ConversionStep => FallsBackToDefault]_vars

\* An explicit code page argument of 0
ExplicitZero == call'.op \in ExplicitOps /\ call'.code_page = 0

\* C8: the same for every request but an explicit argument of 0, under which
\* the conversion runs under code page 0 without trying 437 and without the
\* warning.
C8_FallbackToDefaultAmended ==
    [][ConversionStep =>
           IF ExplicitZero
           THEN call'.cp = 0 /\ warned_default' = warned_default
           ELSE FallsBackToDefault]_vars

\* Code page 852, which extends 853 which extends 852, was asked for and the
\* conversion ran under 437
C8_Witness ==
    /\ call.op = "utf8_to_dos_cp"
    /\ call.code_page = 852
    /\ 852 \notin DOMAIN mappings_normalized_by_codepage
    /\ call.cp = default_code_page

\* code_page names no code page of the loaded configuration
Unsupported(code_page) ==
    /\ code_page # 0
    /\ config_loaded
    /\ ~MapHas(config_mappings, deduplicate_code_page(Reg, code_page))

\* C9: a conversion naming an unsupported code page logs the unknown code
\* page warning for it, once over any sequence of conversions, and runs under
\* the default code page when that one is prepared.
C9_UnknownCodePageWarnedOnce ==
    (call.op \in ExplicitOps /\ Unsupported(call.code_page)) =>
        /\ CopiesIn(<<"Requested unknown code page", "", call.code_page>>, log) = 1
        /\ (default_code_page \in DOMAIN mappings_normalized_by_codepage
                => call.cp = default_code_page)

\* Code page 437 is loadable from the files on disk
Loadable ==
    prepare_code_page(load_config_if_needed(FreshRegistry, disk), disk,
                      default_code_page).ok

\* C10: below EGA get_utf8_code_page returns 437 whenever 437 is loadable, in
\* every order of the public calls, as the first call of the process too.
C10_DefaultBelowEga ==
    (call.op = "get_utf8_code_page" /\ ~machine_egavga /\ Loadable)
        => call.cp = default_code_page

---------------------------------------------------------------------------
(* Properties of the warnings                                              *)

UnknownWarning(code_point) ==
    <<"No fallback mapping for code point", "", code_point>>

\* The code points the callers' strings are made of, and the unknown character
WatchedCodePoints == {63, 65, 197, 216, 778, 8491, 26085}

\* In the call the step ends with, a grapheme of base code_point went to
\* push_unknown
ReachesUnknown(code_point) ==
    /\ call'.op \in Utf8ToDosOps
    /\ \E k \in 1..Len(call'.push_iters) :
           /\ call'.push_iters[k].push.step = "unknown"
           /\ call'.push_iters[k].grapheme.code_point = code_point

\* C11: over any sequence of calls the 'no fallback mapping' warning is in
\* the log exactly once for each base code point that has reached the unknown
\* step, however often it recurs, and every occurrence emits 0x3f and makes
\* the call return false.
C11_UnknownWarnedOnce ==
    [][/\ \A code_point \in WatchedCodePoints :
              CopiesIn(UnknownWarning(code_point), log') =
                  IF \/ CopiesIn(UnknownWarning(code_point), log) > 0
                     \/ ReachesUnknown(code_point)
                  THEN 1 ELSE 0
       /\ call'.op \in Utf8ToDosOps =>
              \A k \in 1..Len(call'.push_iters) :
                  call'.push_iters[k].push.step = "unknown" =>
                      /\ call'.str_out[k] = unknown_character
                      /\ ~call'.status]_vars

\* U+65E5 twice in one call, after an earlier call had warned of U+00D8
C11_Witness ==
    /\ call.op \in Utf8ToDosOps
    /\ call.str_wide = <<26085, 26085>>
    /\ call.str_out = <<unknown_character, unknown_character>>
    /\ ~call.status
    /\ warned_code_points = {216, 26085}
    /\ CopiesIn(UnknownWarning(26085), log) = 1

---------------------------------------------------------------------------
(* Properties of the mapping builder                                       *)

\* The code pages of the configurations and of the requests
AllCodePages == {0, 437, 850, 852, 853, 858, 999}

\* The code page code_page is declared to extend, after deduplication; 0 if
\* none
ExtendedBy(code_page) ==
    IF MapHas(config_mappings, code_page)
       /\ config_mappings[code_page].extends_code_page # 0
    THEN deduplicate_code_page(Reg, config_mappings[code_page].extends_code_page)
    ELSE 0

\* code_page comes back to target along at most steps EXTENDS CODEPAGE
\* declarations
RECURSIVE ExtendsUpTo(_, _, _)
ExtendsUpTo(code_page, target, steps) ==
    /\ steps > 0
    /\ ExtendedBy(code_page) # 0
    /\ \/ ExtendedBy(code_page) = target
       \/ ExtendsUpTo(ExtendedBy(code_page), target, steps - 1)

OnCycle(code_page) ==
    ExtendsUpTo(code_page, code_page, Cardinality(DOMAIN config_mappings))

\* C12: over any sequence of calls the body of construct_mapping runs at most
\* once per code page, also along cyclic EXTENDS CODEPAGE declarations; every
\* code page on a cycle is reported unsupported; a code page that was built
\* is served from the cache, and one whose construction failed fails again
\* without being rebuilt.
C12_ConstructedAtMostOnce ==
    \A code_page \in AllCodePages :
        /\ CopiesIn(code_page, construct_runs) <= 1
        /\ (config_loaded /\ OnCycle(code_page)) =>
               ~prepare_code_page(Reg, disk, code_page).ok
        /\ BagIn(code_page, construct_runs) =>
               prepare_code_page(Reg, disk, code_page) =
                   [r |-> Reg,
                    ok |-> MapHas(mappings_normalized_by_codepage, code_page)]

\* 852 and 853, which extend each other, were each gone through once and
\* neither is prepared, while 437 is and 852 is asked for again
C12_Witness ==
    /\ call.op = "dos_to_utf8_cp"
    /\ call.code_page = 852
    /\ OnCycle(852) /\ OnCycle(853)
    /\ already_tried = {437, 852, 853}
    /\ CopiesIn(852, construct_runs) = 1
    /\ CopiesIn(853, construct_runs) = 1
    /\ DOMAIN mappings_normalized_by_codepage = {437}
    /\ call.cp = default_code_page

---------------------------------------------------------------------------
(* Properties of the loader                                                *)

\* The step logs an error about the file of this name
ErrorLogged(file_name) ==
    \E msg \in BagToSet(log') :
        msg[2] = file_name /\ CopiesIn(msg, log') > CopiesIn(msg, log)

\* The step leaves the entry of code_page in the per-code-page table as it was
SameFor(code_page, table_before, table_after) ==
    /\ MapHas(table_after, code_page) <=> MapHas(table_before, code_page)
    /\ MapHas(table_before, code_page) =>
           table_after[code_page] = table_before[code_page]

\* The code pages MAIN.TXT builds from the external file of this name
BuiltFrom(file_name) ==
    { code_page \in DOMAIN config_mappings' :
          config_mappings'[code_page].extends_file = file_name }

\* C13: when loading a configuration file hits a parse error, a read error
\* or an empty file, none of the tables the file feeds is changed:
\* config_mappings, config_duplicates and config_aliases for MAIN.TXT,
\* mapping_ascii for ASCII.TXT, decomposition_rules for DECOMPOSITION.TXT,
\* the tables of the code page for a per-code-page file.
C13_FailedLoadKeepsTables ==
    [][/\ ErrorLogged(file_name_main) =>
              /\ config_mappings' = config_mappings
              /\ config_duplicates' = config_duplicates
              /\ config_aliases' = config_aliases
       /\ ErrorLogged(file_name_ascii) => mapping_ascii' = mapping_ascii
       /\ ErrorLogged(file_name_decomposition) =>
              decomposition_rules' = decomposition_rules
       /\ ErrorLogged("CP437.TXT") =>
              \A code_page \in BuiltFrom("CP437.TXT") :
                  /\ SameFor(code_page, mappings_normalized_by_codepage,
                             mappings_normalized_by_codepage')
                  /\ SameFor(code_page, mappings_decomposed_by_codepage,
                             mappings_decomposed_by_codepage')
                  /\ SameFor(code_page, mappings_reverse_by_codepage,
                             mappings_reverse_by_codepage')
                  /\ SameFor(code_page, aliases_normalized_by_codepage,
                             aliases_normalized_by_codepage')
                  /\ SameFor(code_page, aliases_decomposed_by_codepage,
                             aliases_decomposed_by_codepage')]_vars

\* MAIN.TXT failed to parse on its fourth line, after three lines that
\* define code page 437, and no code page is configured
C13_Witness ==
    /\ config_loaded
    /\ disk.main = File(<<LCodePage(437), LMapping(143, <<197>>), LUndefined(128),
                          LMalformed>>)
    /\ BagIn(<<error_parsing(""), file_name_main, 4>>, log)
    /\ config_mappings = EmptyMap
    /\ mapping_ascii # EmptyMap

---------------------------------------------------------------------------
(* Properties of Grapheme                                                  *)

\* C14: constructing from a combining mark, AddMark of a code point that is
\* not a combining mark, and AddMark on an empty grapheme each leave the
\* grapheme invalid; AddMark on an invalid grapheme leaves it invalid; and
\* every invalid grapheme has base 0x3f, no marks, and is not empty.
C14_InvalidGraphemes ==
    call.op \in GraphemeOps =>
        /\ (call.op = "Grapheme" /\ is_combining_mark(call.arg))
               => ~IsValid(call.grapheme)
        /\ (call.op = "AddMark" /\ ~is_combining_mark(call.arg))
               => ~IsValid(call.grapheme)
        /\ (call.op = "AddMark" /\ IsEmpty(call.before))
               => ~IsValid(call.grapheme)
        /\ (call.op = "AddMark" /\ ~IsValid(call.before))
               => ~IsValid(call.grapheme)
        /\ ~IsValid(call.grapheme) =>
               /\ call.grapheme.code_point = unknown_character
               /\ call.grapheme.marks = <<>>
               /\ call.grapheme.marks_sorted = <<>>
               /\ ~IsEmpty(call.grapheme)

\* A combining mark was added to the empty grapheme
C14_Witness ==
    /\ call.op = "AddMark"
    /\ is_combining_mark(call.arg)
    /\ call.before = GraphemeDefault
    /\ ~IsValid(call.grapheme)
    /\ GetCodePoint(call.grapheme) = unknown_character

\* The elements of a sequence
Range(s) == { s[k] : k \in 1..Len(s) }

\* The orders in which the marks of the sequence can be added
Orders(marks) ==
    { q \in [1..Len(marks) -> Range(marks)] : Range(q) = Range(marks) }

\* The grapheme of the same base to which the marks are added in order q
Rebuilt(base, q) == AddMarks(GraphemeOf(base), q)

\* C15: marks_sorted is the ascending duplicate-free arrangement of marks;
\* two graphemes of the same base to which the same marks were added in
\* different orders compare equal, neither is ordered before the other, and
\* each emits its marks in its own insertion order.
C15_MarksSortedInSync ==
    call.op \in GraphemeOps =>
        /\ \A i, j \in 1..Len(call.grapheme.marks_sorted) :
               i < j => call.grapheme.marks_sorted[i] < call.grapheme.marks_sorted[j]
        /\ Range(call.grapheme.marks_sorted) = Range(call.grapheme.marks)
        /\ Len(call.grapheme.marks_sorted) = Len(call.grapheme.marks)
        /\ (/\ call.op = "AddMark"
            /\ IsValid(call.grapheme)
            /\ ~InSeq(call.arg, call.before.marks))
               => call.grapheme.marks = Append(call.before.marks, call.arg)
        /\ (IsValid(call.grapheme) /\ ~IsEmpty(call.grapheme)) =>
               \A q \in Orders(call.grapheme.marks) :
                   /\ GraphemeEq(call.grapheme, Rebuilt(call.grapheme.code_point, q))
                   /\ ~GraphemeLess(call.grapheme, Rebuilt(call.grapheme.code_point, q))
                   /\ ~GraphemeLess(Rebuilt(call.grapheme.code_point, q), call.grapheme)
                   /\ PushInto(Rebuilt(call.grapheme.code_point, q), <<>>) =
                          <<call.grapheme.code_point>> \o q
                   /\ PushInto(call.grapheme, <<>>) =
                          <<call.grapheme.code_point>> \o call.grapheme.marks

\* The acute was added after the cedilla and the ring: marks keeps that
\* order, marks_sorted holds acute, ring, cedilla
C15_Witness ==
    /\ call.op = "AddMark"
    /\ call.arg = 769
    /\ call.grapheme.code_point = 65
    /\ call.grapheme.marks = <<807, 778, 769>>
    /\ call.grapheme.marks_sorted = <<769, 778, 807>>

---------------------------------------------------------------------------
(* Properties of the tables                                                *)

\* The pairs the ALIAS lines of a file configure, in file order
RECURSIVE AliasPairs(_)
AliasPairs(lines) ==
    IF lines = <<>> THEN <<>>
    ELSE (IF Head(lines).kind = "ALIAS"
          THEN <<<<Head(lines).a, Head(lines).b>>>>
          ELSE IF Head(lines).kind = "ALIAS_BIDIRECTIONAL"
          THEN <<<<Head(lines).a, Head(lines).b>>, <<Head(lines).b, Head(lines).a>>>>
          ELSE <<>>)
         \o AliasPairs(Tail(lines))

\* pair has its first code point absent from mapping and its second present
Applies(pair, mapping) ==
    /\ ~MapHas(mapping, Key(GraphemeOf(pair[1])))
    /\ MapHas(mapping, Key(GraphemeOf(pair[2])))

\* pairs[k] is the first pair of its first code point that applies
FirstApplying(pairs, k, mapping) ==
    /\ Applies(pairs[k], mapping)
    /\ \A j \in 1..(k - 1) : ~(pairs[j][1] = pairs[k][1] /\ Applies(pairs[j], mapping))

\* C16: for every prepared code page, aliases_normalized has an entry for
\* `from` only if a configured pair (from, to) has `from` absent from and `to`
\* present in mappings_normalized, and the byte of the entry is that of `to`
\* for the first such pair in file order; ALIAS a b gives the pair (a, b)
\* only, ALIAS a b BIDIRECTIONAL the pairs (a, b) and (b, a).
C16_AliasesFromFirstPair ==
    \A code_page \in DOMAIN aliases_normalized_by_codepage :
        \A key \in DOMAIN aliases_normalized_by_codepage[code_page] :
            \E k \in 1..Len(AliasPairs(disk.main.lines)) :
                /\ Key(GraphemeOf(AliasPairs(disk.main.lines)[k][1])) = key
                /\ FirstApplying(AliasPairs(disk.main.lines), k,
                                 mappings_normalized_by_codepage[code_page])
                /\ aliases_normalized_by_codepage[code_page][key].second =
                       mappings_normalized_by_codepage[code_page]
                           [Key(GraphemeOf(AliasPairs(disk.main.lines)[k][2]))].second

\* The Angstrom sign is an alias of O with stroke, then of A with ring: it
\* has the byte of O with stroke, and A with ring, mapped itself, has no
\* alias although ALIAS 197 8491 BIDIRECTIONAL names it
C16_Witness ==
    /\ call.op = "utf8_to_dos_cp"
    /\ call.cp = default_code_page
    /\ disk.main = File(<<LCodePage(437), LMapping(143, <<197>>),
                          LMapping(128, <<216>>), LAlias(8491, 216),
                          LAliasBidirectional(197, 8491)>>)
    /\ config_aliases = <<<<8491, 216>>, <<197, 8491>>, <<8491, 197>>>>
    /\ mappings_normalized_by_codepage[437][Key(GraphemeOf(197))].second = 143
    /\ mappings_normalized_by_codepage[437][Key(GraphemeOf(216))].second = 128
    /\ DOMAIN aliases_normalized_by_codepage[437] = {Key(GraphemeOf(8491))}
    /\ call.str_wide = <<8491>>
    /\ call.str_out = <<128>>

\* The (byte, grapheme) pairs construct_mapping gives to add_to_mappings for
\* code_page, in order: the direct entries, the entries of the code page it
\* extends, the entries of its external file
DirectEntries(code_page) ==
    [k \in 1..Cardinality(DOMAIN config_mappings[code_page].mapping) |->
        <<Ascending(DOMAIN config_mappings[code_page].mapping)[k],
          config_mappings[code_page].mapping
              [Ascending(DOMAIN config_mappings[code_page].mapping)[k]]>>]

EntriesOfForward(mapping) ==
    [k \in 1..Cardinality(DOMAIN mapping) |->
        <<mapping[GraphemeOrder(mapping, DOMAIN mapping)[k]].second,
          mapping[GraphemeOrder(mapping, DOMAIN mapping)[k]].first>>]

InheritedEntries(code_page) ==
    IF config_mappings[code_page].extends_code_page = 0 THEN <<>>
    ELSE EntriesOfForward(mappings_normalized_by_codepage[
             deduplicate_code_page(Reg, config_mappings[code_page].extends_code_page)])

EntriesOfReverse(mapping) ==
    [k \in 1..Cardinality(DOMAIN mapping) |->
        <<Ascending(DOMAIN mapping)[k], mapping[Ascending(DOMAIN mapping)[k]]>>]

FileEntries(code_page) ==
    IF config_mappings[code_page].extends_file = "" THEN <<>>
    ELSE EntriesOfReverse(
             import_mapping_code_page(Reg,
                 ExternalFile(disk, config_mappings[code_page].extends_dir,
                              config_mappings[code_page].extends_file),
                 config_mappings[code_page].extends_file).mapping)

EntriesGiven(code_page) ==
    DirectEntries(code_page) \o InheritedEntries(code_page) \o FileEntries(code_page)

NoMaps == [forward |-> EmptyMap, reverse |-> EmptyMap]

ForwardInserted(maps, byte, grapheme) ==
    IF MapHas(maps.forward, Key(grapheme)) THEN maps
    ELSE [maps EXCEPT !.forward =
                          MapPut(@, Key(grapheme), [first |-> grapheme, second |-> byte])]

ReverseInserted(maps, byte, grapheme) ==
    IF MapHas(maps.reverse, byte) THEN maps
    ELSE [maps EXCEPT !.reverse = MapPut(@, byte, grapheme)]

\* The four steps as stated: the forward insertion does not depend on the
\* reverse one
FourSteps(maps, byte, grapheme) ==
    IF byte < 128 THEN maps
    ELSE IF IsEmpty(grapheme) \/ ~IsValid(grapheme)
    THEN ReverseInserted(maps, byte, grapheme)
    ELSE ForwardInserted(ReverseInserted(maps, byte, grapheme), byte, grapheme)

\* The steps with nothing done at all for a byte that has a reverse entry
FourStepsUnlessMapped(maps, byte, grapheme) ==
    IF byte < 128 \/ MapHas(maps.reverse, byte) THEN maps
    ELSE FourSteps(maps, byte, grapheme)

RECURSIVE AllFourSteps(_, _)
AllFourSteps(maps, entries) ==
    IF entries = <<>> THEN maps
    ELSE AllFourSteps(FourSteps(maps, Head(entries)[1], Head(entries)[2]),
                      Tail(entries))

RECURSIVE AllFourStepsUnlessMapped(_, _)
AllFourStepsUnlessMapped(maps, entries) ==
    IF entries = <<>> THEN maps
    ELSE AllFourStepsUnlessMapped(
             FourStepsUnlessMapped(maps, Head(entries)[1], Head(entries)[2]),
             Tail(entries))

\* C17 as stated: the maps of a prepared code page are those the four steps
\* give on its direct, inherited and external-file entries: bytes < 0x80
\* ignored; reverse entry inserted only if the byte has none; nothing more for
\* an empty or invalid grapheme; otherwise the forward entry inserted whenever
\* the grapheme is not yet a forward key, also when the byte already had a
\* reverse entry.
C17_AddToMappings ==
    \A code_page \in DOMAIN mappings_normalized_by_codepage :
        /\ mappings_normalized_by_codepage[code_page] =
               AllFourSteps(NoMaps, EntriesGiven(code_page)).forward
        /\ mappings_reverse_by_codepage[code_page] =
               AllFourSteps(NoMaps, EntriesGiven(code_page)).reverse

\* C17: the same, but a byte that already has a reverse entry changes
\* neither map: the forward entry is inserted only after the reverse entry
\* of the byte was.
C17_AddToMappingsAmended ==
    \A code_page \in DOMAIN mappings_normalized_by_codepage :
        /\ mappings_normalized_by_codepage[code_page] =
               AllFourStepsUnlessMapped(NoMaps, EntriesGiven(code_page)).forward
        /\ mappings_reverse_by_codepage[code_page] =
               AllFourStepsUnlessMapped(NoMaps, EntriesGiven(code_page)).reverse

\* 850 maps 0x8f to O with stroke itself and extends 437, which maps 0x8f to
\* A with ring: 850 has no forward entry for A with ring
C17_Witness ==
    /\ 850 \in DOMAIN mappings_normalized_by_codepage
    /\ 437 \in DOMAIN mappings_normalized_by_codepage
    /\ config_mappings[850].extends_code_page = 437
    /\ 143 \in DOMAIN mappings_reverse_by_codepage[437]
    /\ mappings_reverse_by_codepage[437][143] = GraphemeOf(197)
    /\ 143 \in DOMAIN mappings_reverse_by_codepage[850]
    /\ mappings_reverse_by_codepage[850][143] = GraphemeOf(216)
    /\ ~MapHas(mappings_normalized_by_codepage[850], Key(GraphemeOf(197)))

\* Properties of the decomposition rules

RepeatsSource(lines) ==
    \E j \in 1..Len(lines) : \E k \in (j + 1)..Len(lines) : lines[j].a = lines[k].a

HasOtherThanMark(lines) ==
    \E k \in 1..Len(lines) : \E i \in 1..Len(lines[k].cps) :
        ~is_combining_mark(lines[k].cps[i])

\* C18: a DECOMPOSITION.TXT in which a source code point comes again on a
\* later line, or in which some mark token is not a combining mark, installs
\* no rule.
C18_DecompositionRejected ==
    (config_loaded /\ (RepeatsSource(disk.decomposition.lines)
                          \/ HasOtherThanMark(disk.decomposition.lines)))
        => decomposition_rules = EmptyMap

DecomposeRunning == call.op = "Decompose" /\ call.pc = "loop"
DecomposeReturned == call.op = "Decompose" /\ call.pc = "idle"

\* C19: under the rules the loader has installed every call of Decompose
\* returns, and Decompose applied to what it returned changes nothing.
C19_DecomposeTerminates ==
    /\ DecomposeRunning ~> DecomposeReturned
    /\ [](DecomposeReturned =>
              Decompose(call.grapheme, decomposition_rules) = call.grapheme)

\* Properties of the scopes of MAIN.TXT

ByteForm == {"UNDEFINED", "MAPPING"}
ExtendsForm == {"EXTENDS_CODEPAGE", "EXTENDS_FILE"}
AliasForm == {"ALIAS", "ALIAS_BIDIRECTIONAL"}

NoScope ==
    [scope |-> 0, defined |-> {}, duplicates |-> {}, abort |-> FALSE,
     owned |-> {}, extended |-> {}]

\* The scope rules applied to one line: v.scope is the open scope (0 for
\* none), v.defined the code pages defined so far, v.owned the (code page,
\* byte) pairs of the byte-form lines >= 0x80, v.extended the code pages that
\* had an EXTENDS line
ScopeLine(v, line) ==
    CASE line.kind = "CODEPAGE" ->
             IF line.a \in v.defined THEN [v EXCEPT !.abort = TRUE]
             ELSE [v EXCEPT !.scope = line.a, !.defined = @ \cup {line.a}]
      [] line.kind = "DUPLICATES" ->
             IF line.a \in v.defined THEN [v EXCEPT !.abort = TRUE]
             ELSE [v EXCEPT !.scope = 0, !.defined = @ \cup {line.a},
                            !.duplicates = @ \cup {line.a}]
      [] line.kind \in ExtendsForm ->
             IF v.scope = 0 THEN [v EXCEPT !.abort = TRUE]
             ELSE [v EXCEPT !.scope = 0, !.extended = @ \cup {v.scope}]
      [] line.kind \in AliasForm -> [v EXCEPT !.scope = 0]
      [] line.kind \in ByteForm ->
             IF v.scope = 0 THEN [v EXCEPT !.abort = TRUE]
             ELSE IF line.a < 128 THEN v
             ELSE [v EXCEPT !.owned = @ \cup {<<v.scope, line.a>>}]
      [] OTHER -> v

RECURSIVE ScopeLines(_, _)
ScopeLines(v, lines) ==
    IF lines = <<>> \/ v.abort THEN v
    ELSE ScopeLines(ScopeLine(v, Head(lines)), Tail(lines))

IsExtended(entry) == entry.extends_code_page # 0 \/ entry.extends_file # ""

\* What the scope rules leave of a MAIN.TXT that has been read: nothing of a
\* file they abort, and of a file that was stored its code pages, each with
\* the bytes and the EXTENDS of its own scope
ScopesKept(v) ==
    /\ v.abort => /\ config_mappings = EmptyMap
                  /\ config_duplicates = EmptyMap
                  /\ \E msg \in BagToSet(log) : msg[2] = file_name_main
    /\ config_mappings # EmptyMap =>
           /\ ~v.abort
           /\ DOMAIN config_mappings = v.defined \ v.duplicates
           /\ DOMAIN config_duplicates = v.duplicates
           /\ \A code_page \in DOMAIN config_mappings :
                  /\ DOMAIN config_mappings[code_page].mapping =
                         { byte \in 128..255 : <<code_page, byte>> \in v.owned }
                  /\ IsExtended(config_mappings[code_page])
                         <=> code_page \in v.extended

\* C20: a scope is opened only by a plain CODEPAGE line of a code page not
\* yet defined as a mapping or a duplicate, and closed by every EXTENDS, ALIAS
\* and DUPLICATES line; a byte-form or EXTENDS line outside a scope, and a
\* CODEPAGE line of a code page already defined, abort the load; after a
\* successful load no code page is both in config_mappings and in
\* config_duplicates.
C20_ScopeRules ==
    /\ DOMAIN config_mappings \cap DOMAIN config_duplicates = {}
    /\ (config_loaded /\ disk.main.state = "ok")
           => ScopesKept(ScopeLines(NoScope, disk.main.lines))

\* CODEPAGE 437 closed by its EXTENDS, CODEPAGE 850 opened after it: the byte
\* line belongs to 850 alone
C20_Witness ==
    /\ config_loaded
    /\ disk.main = File(<<LCodePage(437), LExtendsFile("mapping", "CP437.TXT"),
                          LCodePage(850), LMapping(143, <<197>>)>>)
    /\ DOMAIN config_mappings = {437, 850}
    /\ config_mappings[437].mapping = EmptyMap
    /\ DOMAIN config_mappings[850].mapping = {143}

\* Properties of the built tables

\* The entry of the forward table has a byte >= 0x80 and a non-empty valid
\* grapheme, the reverse table gives that grapheme for the byte, and the byte
\* decodes under code_page to the base and the marks of the grapheme
DecodesBack(code_page, entry) ==
    /\ entry.second >= 128
    /\ ~IsEmpty(entry.first) /\ IsValid(entry.first)
    /\ MapHas(mappings_reverse_by_codepage, code_page)
    /\ MapHas(mappings_reverse_by_codepage[code_page], entry.second)
    /\ mappings_reverse_by_codepage[code_page][entry.second] = entry.first
    /\ get_custom_code_page(Reg, disk, code_page).cp = code_page
    /\ dos_to_wide(Reg, <<entry.second>>, code_page)
           = <<entry.first.code_point>> \o entry.first.marks

\* C21: in every prepared code page every entry grapheme->byte of the
\* normalized table has byte >= 0x80 and a non-empty valid grapheme which the
\* reverse table gives back for the byte, so the byte decodes under the same
\* code page to the same base and marks.
C21_ForwardEntriesDecodeBack ==
    \A code_page \in DOMAIN mappings_normalized_by_codepage :
        \A key \in DOMAIN mappings_normalized_by_codepage[code_page] :
            /\ key = Key(mappings_normalized_by_codepage[code_page][key].first)
            /\ DecodesBack(code_page, mappings_normalized_by_codepage[code_page][key])

\* 850 has byte 0x8f of its own and takes 'A' with cedilla and ring on 0x80
\* from 437, which also has an entry for 0x8f
C21_Witness ==
    /\ 850 \in DOMAIN mappings_normalized_by_codepage
    /\ config_mappings[850].extends_code_page = 437
    /\ 143 \in DOMAIN config_mappings[850].mapping
    /\ 143 \in DOMAIN mappings_reverse_by_codepage[437]
    /\ mappings_reverse_by_codepage[437][143] # mappings_reverse_by_codepage[850][143]
    /\ MapHas(mappings_normalized_by_codepage[850],
              Key(get_grapheme(<<65, 807, 778>>)))
    /\ mappings_normalized_by_codepage[850][Key(get_grapheme(<<65, 807, 778>>))].second
           = 128

\* Properties of the assertions of the builder

\* C22: over any sequence of public calls every assert() of the builder
\* holds: when construct_mapping passes its already-tried guard for a code
\* page, the code page is in config_mappings and has no normalized,
\* decomposed or reverse table; when construct_aliases runs for a code page,
\* the code page has a normalized table and no alias tables yet.
C22_BuilderAssertionsHold ==
    \A a \in asserted : a.holds

\* The assertions were evaluated for the built 437 and 850 (which extends
\* 437) and for 852 and 853, which extend each other and failed; 858, a
\* duplicate of 850, is asked for
C22_Witness ==
    /\ { a.code_page : a \in { b \in asserted : b.at = "construct_mapping" } }
           = {437, 850, 852, 853}
    /\ { a.code_page : a \in { b \in asserted : b.at = "construct_aliases" } }
           = {437, 850}
    /\ CopiesIn(437, construct_runs) = 1
    /\ call.op = "dos_to_utf8_cp" /\ call.code_page = 858 /\ call.cp = 850

=============================================================================
